---------------------------- MODULE Spec2Model ----------------------------
(***************************************************************************)
(* A model of the yWriter 7 import/export code of nv_yw7:                  *)
(*   - nvyw7lib/xml_fixer.py       XmlFixer (format tag fixer)             *)
(*   - nvywlib/xml_fixer.py        XmlFixer (removes em/strong nestings)   *)
(*   - nvyw7lib/novx_to_shortcode.py  NovxToShortcode (flow -> shortcode)  *)
(*   - nvywlib/yw7_file.py         Yw7File (read, write, _convert_to_novx) *)
(* Ten specifications share the variables: SpecFixer and SpecNestingFixer  *)
(* (a fixer fed a lexeme at a time), SpecImport and SpecExport (a section  *)
(* body converted there and back), SpecNotes (a scene body with comments   *)
(* and notes imported), SpecInline (a section body with nested spans, a    *)
(* comment or a note exported), SpecFile (read and write with failing file *)
(* operations next to yWriter), SpecRoundTrip (novels written and read     *)
(* back), SpecWrite (novels that differ in locale, word count log and      *)
(* types written) and SpecRead (files of yWriter read).                    *)
(* Strings are sequences of lexemes; a lexeme is a tag, a character or an  *)
(* escaped character, so that escaping and parsing are real conversions.   *)
(***************************************************************************)
EXTENDS Integers, Sequences, FiniteSets, TLC

VARIABLES
    fixInput,       \* XmlFixer: the lexemes fed to the parser so far
    fixFormat,      \* XmlFixer._format: stack of the open format tags (of
                    \* nvywlib's XmlFixer: the flags _em and _strong)
    fixedXmlStr,    \* XmlFixer._fixedXmlStr: list of the emitted lexemes
    sceneContent,   \* the yw7 <SceneContent> text (shortcode) of a scene
    sectionContent, \* prjScn.sectionContent (novx flow markup) of the scene
    cvOriginal,     \* the text the conversions started from
    cvHolds,        \* which side holds the current text: "yw7" or "novx"
    cvSteps,        \* the number of conversions done
    fsYw7,          \* the file at filePath
    fsBak,          \* the file at filePath + '.bak'
    fsLock,         \* os.path.isfile(filePath + '.lock')
    pc,             \* the position of the running read() or write() call
    op,             \* the last method called: "read" or "write"
    result,         \* how the last call ended, "running" while it runs
    log,            \* the calls that have ended, each with its result
    fsBefore,       \* the file at filePath when the last call began
    exported,       \* the novel when the last write() began
    backedUp,       \* _write_element_tree: backedUp
    ywTree,         \* Yw7File.tree
    noteCounter,    \* Yw7File._noteCounter
    noteNumber,     \* Yw7File._noteNumber
    wcLog,          \* Yw7File.wcLog
    novel           \* Yw7File.novel, the borrowed Novel

fixerVars == <<fixInput, fixFormat, fixedXmlStr>>

converterVars == <<sceneContent, sectionContent, cvOriginal, cvHolds, cvSteps>>

diskVars == <<fsYw7, fsBak, fsLock>>

instanceVars == <<ywTree, noteCounter, noteNumber, wcLog, novel>>

callVars == <<pc, op, result, log, fsBefore, exported, backedUp>>

fileVars == <<diskVars, instanceVars, callVars>>

vars == <<fixerVars, converterVars, fileVars>>

(***************************************************************************)
(* Generic helpers on sequences.                                           *)
(***************************************************************************)
Last(s) == s[Len(s)]

Front(s) == SubSeq(s, 1, Len(s) - 1)

Contains(s, e) == \E i \in 1..Len(s) : s[i] = e

SeqsUpTo(S, n) == UNION {[1..k -> S] : k \in 0..n}

(***************************************************************************)
(* XmlFixer (nvyw7lib/xml_fixer.py).                                       *)
(*                                                                         *)
(* A lexeme of the fixer's input is a start tag, an end tag or character   *)
(* data.  esc is the number of times the character "&" is escaped in the   *)
(* attribute value of a start tag or in the character data: 0 is a raw     *)
(* "&", 1 is "&amp;", 2 is "&amp;amp;".  esc = -1 is a start tag without   *)
(* attribute or data without reserved character.                           *)
(***************************************************************************)
MaxFixLen == 4

MaxEsc == 2

FormatTags == {"em", "strong"}

OtherTags == {"span"}

StartLex(tag, esc) == [k |-> "start", tag |-> tag, esc |-> esc]

EndLex(tag) == [k |-> "end", tag |-> tag, esc |-> -1]

DataLex(esc) == [k |-> "data", tag |-> "", esc |-> esc]

\* html.unescape as applied by HTMLParser to attribute values and to data
Unescape(esc) == IF esc >= 1 THEN esc - 1 ELSE esc

\* html.escape as applied by handle_data
Escape(esc) == IF esc >= 0 THEN esc + 1 ELSE esc

\* The state of one XmlFixer instance after __init__
FixerNew == [format |-> <<>>, out |-> <<>>]

\* handle_data: keep all character data, escaped
HandleDataOn(fx, esc) ==
    [fx EXCEPT !.out = Append(@, DataLex(Escape(Unescape(esc))))]

\* The closers of the format tags above tag on the stack, top first
RECURSIVE ClosersDownTo(_, _)
ClosersDownTo(stack, tag) ==
    IF Last(stack) = tag THEN <<>>
    ELSE <<EndLex(Last(stack))>> \o ClosersDownTo(Front(stack), tag)

\* The stack below tag: what is left after popping down to tag and tag itself
RECURSIVE PopThrough(_, _)
PopThrough(stack, tag) ==
    IF Last(stack) = tag THEN Front(stack)
    ELSE PopThrough(Front(stack), tag)

\* One end tag with the overlapping areas left as they are
HandleEndtagNoUnwind(fx, tag) ==
    IF tag \in FormatTags
    THEN IF ~Contains(fx.format, tag)
         THEN fx
         ELSE [format |-> SelectSeq(fx.format, LAMBDA t : t # tag),
               out |-> Append(fx.out, EndLex(tag))]
    ELSE [fx EXCEPT !.out = Append(@, EndLex(tag))]

\* handle_endtag: close formatting areas if needed to avoid overlapping
HandleEndtagOn(fx, tag) ==
    IF tag \in FormatTags
    THEN IF ~Contains(fx.format, tag)
         THEN fx
         ELSE [format |-> PopThrough(fx.format, tag),
               out |-> fx.out \o ClosersDownTo(fx.format, tag)
                              \o <<EndLex(tag)>>]
    ELSE [fx EXCEPT !.out = Append(@, EndLex(tag))]

\* handle_starttag: keep all tags, except format tags of a kind already open
HandleStarttagOn(fx, tag, esc) ==
    IF tag \in FormatTags
    THEN IF Contains(fx.format, tag)
         THEN fx
         ELSE [format |-> Append(fx.format, tag),
               out |-> Append(fx.out, StartLex(tag, Unescape(esc)))]
    ELSE [fx EXCEPT !.out = Append(@, StartLex(tag, Unescape(esc)))]

\* HTMLParser.feed dispatching one lexeme to its handler
Dispatch(fx, lex) ==
    CASE lex.k = "start" -> HandleStarttagOn(fx, lex.tag, lex.esc)
      [] lex.k = "end" -> HandleEndtagOn(fx, lex.tag)
      [] OTHER -> HandleDataOn(fx, lex.esc)

RECURSIVE FeedAll(_, _)
FeedAll(fx, xmlStr) ==
    IF xmlStr = <<>> THEN fx
    ELSE FeedAll(Dispatch(fx, Head(xmlStr)), Tail(xmlStr))

\* XmlFixer(formatTags).fixed(xmlStr) on a fresh instance
FixedFresh(xmlStr) == FeedAll(FixerNew, xmlStr).out

FixerState == [format |-> fixFormat, out |-> fixedXmlStr]

FixerIdle ==
    /\ fixInput = <<>>
    /\ fixFormat = FixerNew.format
    /\ fixedXmlStr = FixerNew.out

FixerStep(lex) ==
    /\ Len(fixInput) < MaxFixLen
    /\ UNCHANGED <<converterVars, fileVars>>
    /\ fixInput' = Append(fixInput, lex)
    /\ fixFormat' = Dispatch(FixerState, lex).format
    /\ fixedXmlStr' = Dispatch(FixerState, lex).out

\* Format tags come without attributes, other tags with or without one
handle_starttag ==
    \/ \E tag \in FormatTags : FixerStep(StartLex(tag, -1))
    \/ \E tag \in OtherTags, esc \in -1..MaxEsc : FixerStep(StartLex(tag, esc))

handle_endtag ==
    \E tag \in FormatTags \cup OtherTags : FixerStep(EndLex(tag))

handle_data ==
    \E esc \in -1..MaxEsc : FixerStep(DataLex(esc))

FixerNext == handle_starttag \/ handle_endtag \/ handle_data

ConverterIdle ==
    /\ sceneContent = <<>>
    /\ sectionContent = <<>>
    /\ cvOriginal = <<>>
    /\ cvHolds = "idle"
    /\ cvSteps = 0

\* Python's None and a list, for an attribute that holds either
None == [isNone |-> TRUE, list |-> <<>>]

Some(list) == [isNone |-> FALSE, list |-> list]

\* A Novel without elements
EmptyNovel ==
    [chapters |-> <<>>, sections |-> <<>>, plotLines |-> <<>>,
     plTree |-> <<>>, plotPoints |-> <<>>, characters |-> <<>>,
     locations |-> <<>>, items |-> <<>>, projectNotes |-> <<>>,
     saveWordCount |-> FALSE,
     languages |-> None, languageCode |-> "", countryCode |-> ""]

\* A yw7 document without elements
EmptyDoc ==
    [LOCATIONS |-> <<>>, ITEMS |-> <<>>, CHARACTERS |-> <<>>,
     PROJECTVARS |-> <<>>,
     SCENES |-> <<>>, CHAPTERS |-> <<>>, PROJECTNOTES |-> <<>>,
     WCLog |-> <<>>]

\* A file is its encoding, its text form and the document the text holds:
\* "yw7" is the final text, "raw" the ElementTree output before
\* postprocessing, "partial" a text cut short by a failed write
NoFile == [form |-> "absent", enc |-> "none", doc |-> EmptyDoc]

\* Yw7File.__init__: self.tree = None
NoTree == [state |-> "none", doc |-> EmptyDoc]

FileIdle ==
    /\ fsYw7 = NoFile
    /\ fsBak = NoFile
    /\ fsLock = FALSE
    /\ pc = "idle"
    /\ op = "none"
    /\ result = "none"
    /\ log = <<>>
    /\ fsBefore = NoFile
    /\ exported = EmptyNovel
    /\ backedUp = FALSE
    /\ ywTree = NoTree
    /\ noteCounter = 0
    /\ noteNumber = 0
    /\ wcLog = <<>>
    /\ novel = EmptyNovel

FixerInit == FixerIdle /\ ConverterIdle /\ FileIdle

SpecFixer == FixerInit /\ [][FixerNext]_vars

\* Replay of an emitted string: TRUE iff every format end tag closes the most
\* recently opened format tag that is still open, and no format tag is opened
\* while the same tag is open.
RECURSIVE FormatNestingOk(_, _)
FormatNestingOk(out, stack) ==
    IF out = <<>> THEN TRUE
    ELSE LET lex == Head(out) IN
         IF lex.tag \notin FormatTags
         THEN FormatNestingOk(Tail(out), stack)
         ELSE IF lex.k = "start"
              THEN /\ ~Contains(stack, lex.tag)
                   /\ FormatNestingOk(Tail(out), Append(stack, lex.tag))
              ELSE /\ stack # <<>>
                   /\ Last(stack) = lex.tag
                   /\ FormatNestingOk(Tail(out), Front(stack))

\* C9: MarkupFixer idempotence: fixing the fixed string again with a fresh
\* XmlFixer gives the same string, fixed(fixed(x)) = fixed(x), for every
\* input x.
C9_FixerIdempotent ==
    FixedFresh(FixedFresh(fixInput)) = FixedFresh(fixInput)

\* C10: Format non-overlap: in the output of fixed() every closing format tag
\* closes the most recently opened still-open format tag, no format tag is
\* opened while the same tag is open, and no closing format tag is emitted
\* for a tag that is not open.
C10_FormatNonOverlap == FormatNestingOk(fixedXmlStr, <<>>)

\* C10 witness: the input closed an outer format tag while an inner one was
\* open, and a closer for the inner one was synthesized.
C10_Witness ==
    /\ \E i, j, l \in 1..Len(fixInput) :
           /\ i < j /\ j < l
           /\ fixInput[i] = StartLex("em", -1)
           /\ fixInput[j] = StartLex("strong", -1)
           /\ fixInput[l] = EndLex("em")
    /\ Len(fixedXmlStr) > Len(fixInput)

\* The number of lexemes of kind k with the given tag in an emitted string
TagCount(out, k, tag) ==
    Cardinality({i \in 1..Len(out) : out[i].k = k /\ out[i].tag = tag})

\* C11: Format balance: the output of fixed() on the input fed so far, which
\* may end while a format tag is still open, holds for each format tag as
\* many closing tags as opening tags, and no format tag is left open.
C11_FormatBalance ==
    /\ fixedXmlStr = FixedFresh(fixInput)
    /\ \A t \in FormatTags :
           TagCount(fixedXmlStr, "start", t) = TagCount(fixedXmlStr, "end", t)

\* C30: when fixed() is called several times on the same XmlFixer instance,
\* the string a call returns is the string that a fresh instance returns for
\* the input of that call, whatever was fed by the calls before it.
C30_CallsIndependent ==
    \A n \in 1..(Len(fixInput) - 1) :
        fixedXmlStr = FixedFresh(SubSeq(fixInput, n + 1, Len(fixInput)))

(***************************************************************************)
(* Section body text.  A text is a sequence of lexemes (strings): a tag,   *)
(* a plain character "a", a space " ", a newline "\n", the character ">"   *)
(* or, in XML, its entity "&gt;".                                          *)
(***************************************************************************)
\* novel.languages: the language codes known to the novel
Languages == <<"de">>

\* tags: the shortcode tag names, 'i', 'b' and one 'lang=X' per language
ShortcodeTags == <<"i", "b">> \o [n \in 1..Len(Languages) |-> "lang"]

\* opening[tag]
Opening(tag) ==
    CASE tag = "i" -> "[i]" [] tag = "b" -> "[b]" [] OTHER -> "[lang=de]"

\* closing[tag]
Closing(tag) ==
    CASE tag = "i" -> "[/i]" [] tag = "b" -> "[/b]" [] OTHER -> "[/lang=de]"

Whitespace == {" ", "\n"}

\* str.count for a single lexeme
Count(line, lex) == Cardinality({n \in 1..Len(line) : line[n] = lex})

\* str.split('\n')
RECURSIVE SplitLines(_)
SplitLines(text) ==
    IF \A n \in 1..Len(text) : text[n] # "\n" THEN <<text>>
    ELSE LET n == CHOOSE m \in 1..Len(text) :
                      text[m] = "\n" /\ \A l \in 1..(m - 1) : text[l] # "\n"
         IN <<SubSeq(text, 1, n - 1)>>
                \o SplitLines(SubSeq(text, n + 1, Len(text)))

\* '\n'.join(newlines)
RECURSIVE JoinLines(_)
JoinLines(lines) ==
    IF Len(lines) = 1 THEN lines[1]
    ELSE lines[1] \o <<"\n">> \o JoinLines(Tail(lines))

\* str.rstrip()
RECURSIVE RStrip(_)
RStrip(text) ==
    IF text # <<>> /\ Last(text) \in Whitespace THEN RStrip(Front(text))
    ELSE text

\* str.lstrip('&gt; '): strip the leading characters out of the given set
RECURSIVE LStripQuoteMarker(_)
LStripQuoteMarker(line) ==
    IF line # <<>> /\ Head(line) \in {"&gt;", " "}
    THEN LStripQuoteMarker(Tail(line))
    ELSE line

\* line.startswith('&gt; ')
StartsWithEscapedMarker(line) ==
    Len(line) >= 2 /\ line[1] = "&gt;" /\ line[2] = " "

\* n copies of a lexeme
Repeat(lex, n) == [m \in 1..n |-> lex]

\* str.replace(opening + closing, ''): left to right, not overlapping
RECURSIVE RemovePairs(_, _, _)
RemovePairs(line, o, c) ==
    IF Len(line) < 2 THEN line
    ELSE IF line[1] = o /\ line[2] = c
         THEN RemovePairs(SubSeq(line, 3, Len(line)), o, c)
         ELSE <<line[1]>> \o RemovePairs(Tail(line), o, c)

\* The body of "for tag in tags" for one line: [line, open]
ProcessTag(line, tag, open) ==
    LET o == Opening(tag)
        c == Closing(tag)
        l1 == IF open
              THEN IF StartsWithEscapedMarker(line)
                   THEN <<"&gt;", " ", o>> \o LStripQuoteMarker(line)
                   ELSE <<o>> \o line
              ELSE line
        more == Count(l1, o) - Count(l1, c)
        l2 == IF more > 0 THEN l1 \o Repeat(c, more) ELSE l1
        less == Count(l2, c) - Count(l2, o)
        l3 == IF less > 0 THEN Repeat(o, less) \o l2 ELSE l2
    IN [line |-> RemovePairs(l3, o, c), open |-> more > 0]

\* "for tag in tags" for one line, from tag number n on: [line, isOpen]
RECURSIVE ProcessLine(_, _, _)
ProcessLine(line, isOpen, n) ==
    IF n > Len(ShortcodeTags) THEN [line |-> line, isOpen |-> isOpen]
    ELSE LET r == ProcessTag(line, ShortcodeTags[n], isOpen[n])
         IN ProcessLine(r.line, [isOpen EXCEPT ![n] = r.open], n + 1)

\* "for line in lines": the new lines
RECURSIVE ProcessLines(_, _)
ProcessLines(lines, isOpen) ==
    IF lines = <<>> THEN <<>>
    ELSE LET r == ProcessLine(Head(lines), isOpen, 1)
         IN <<r.line>> \o ProcessLines(Tail(lines), r.isOpen)

\* xmlReplacements, applied to one lexeme
XmlReplacement(lex) ==
    CASE lex = ">" -> <<"&gt;">>
      [] lex = "\n" -> <<"</p>", "<p>">>
      [] lex = "[i]" -> <<"<em>">>
      [] lex = "[/i]" -> <<"</em>">>
      [] lex = "[b]" -> <<"<strong>">>
      [] lex = "[/b]" -> <<"</strong>">>
      [] lex = "[lang=de]" -> <<"<span xml:lang=\"de\">">>
      [] lex = "[/lang=de]" -> <<"</span>">>
      [] OTHER -> <<lex>>

RECURSIVE ApplyReplacements(_)
ApplyReplacements(text) ==
    IF text = <<>> THEN <<>>
    ELSE XmlReplacement(Head(text)) \o ApplyReplacements(Tail(text))

\* re.sub(r'\<p\>\&gt\; (.*?)\<\/p\>', '<p style="quotations">\\1</p>', text)
RECURSIVE MarkQuotations(_)
MarkQuotations(text) ==
    IF text = <<>> THEN <<>>
    ELSE IF /\ Len(text) >= 3
            /\ text[1] = "<p>" /\ text[2] = "&gt;" /\ text[3] = " "
            /\ \E n \in 4..Len(text) : text[n] = "</p>"
         THEN <<"<p style=\"quotations\">">>
                  \o MarkQuotations(SubSeq(text, 4, Len(text)))
         ELSE <<Head(text)>> \o MarkQuotations(Tail(text))

\* The text after "Process markup reaching across linebreaks"
AcrossLinebreaks(text) ==
    RStrip(JoinLines(ProcessLines(SplitLines(text),
                                  [n \in 1..Len(ShortcodeTags) |-> FALSE])))

\* The lexemes that open a note: '/*', a space, '@fn', '@fn*' or '@en', the
\* space that ends the note type, and the first character of the note
NoteOpeners == {"/* @fn a", "/* @fn* a", "/* @en a"}

\* The lexemes that begin with '/*'; the closing lexeme is " */"
CommentOpeners == NoteOpeners \cup {"/* a"}

\* match.group(1) of a note opener
NoteType(lex) ==
    CASE lex = "/* @fn a" -> "fn"
      [] lex = "/* @fn* a" -> "fn*"
      [] OTHER -> "en"

\* What follows '/*' in a lexeme that begins with it
AfterCommentStart(lex) ==
    CASE lex = "/* a" -> " a"
      [] lex = "/* @fn a" -> " @fn a"
      [] lex = "/* @fn* a" -> " @fn* a"
      [] OTHER -> " @en a"

\* The index of the first '*/' after the first lexeme, 0 if there is none
FirstCloser(text) ==
    IF \E n \in 2..Len(text) : text[n] = " */"
    THEN CHOOSE n \in 2..Len(text) :
             /\ text[n] = " */"
             /\ \A m \in 2..(n - 1) : text[m] # " */"
    ELSE 0

\* text.find('/*') > 0: '/*' occurs, and not at the very beginning
FindCommentStartPositive(text) ==
    /\ \E n \in 1..Len(text) : text[n] \in CommentOpeners
    /\ text[1] \notin CommentOpeners

\* replace_note: the note element and the counters after it
replace_note(noteType, content, counters) ==
    LET counter == counters.noteCounter + 1
        number == counters.noteNumber + 1
        starred == noteType = "fn*"
        noteClass == IF noteType = "en" THEN "endnote" ELSE "footnote"
        noteLabel == IF starred THEN "*" ELSE ToString(number)
    IN [text |-> <<"<note id=\"ftn" \o ToString(counter) \o "\" class=\""
                       \o noteClass \o "\">",
                   "<note-citation>", noteLabel, "</note-citation>", "<p>">>
                 \o content \o <<"</p>", "</note>">>,
        counters |-> [noteCounter |-> counter,
                      noteNumber |-> IF starred THEN number - 1 ELSE number]]

\* re.sub(r'\/\* *@([ef]n\**) (.*?)\*\/', replace_note, text)
RECURSIVE ReplaceNotes(_, _)
ReplaceNotes(text, counters) ==
    IF text = <<>> THEN [text |-> <<>>, counters |-> counters]
    ELSE IF Head(text) \in NoteOpeners /\ FirstCloser(text) > 0
         THEN LET n == FirstCloser(text)
                  note == replace_note(NoteType(Head(text)),
                                       <<"a">> \o SubSeq(text, 2, n - 1)
                                               \o <<" ">>,
                                       counters)
                  rest == ReplaceNotes(SubSeq(text, n + 1, Len(text)),
                                       note.counters)
              IN [rest EXCEPT !.text = note.text \o @]
         ELSE LET rest == ReplaceNotes(Tail(text), counters)
              IN [rest EXCEPT !.text = <<Head(text)>> \o @]

\* replace_comment: "<creator>" is the creator element with the author's
\* name, "<date>" the date element with the time of the conversion
replace_comment(content) ==
    <<"<comment>", "<creator>", "<date>", "<p>">> \o content
        \o <<"</p>", "</comment>">>

\* re.sub(r'\/\*(.*?)\*\/', replace_comment, text)
RECURSIVE ReplaceComments(_)
ReplaceComments(text) ==
    IF text = <<>> THEN <<>>
    ELSE IF Head(text) \in CommentOpeners /\ FirstCloser(text) > 0
         THEN LET n == FirstCloser(text)
              IN replace_comment(<<AfterCommentStart(Head(text))>>
                                     \o SubSeq(text, 2, n - 1) \o <<" ">>)
                     \o ReplaceComments(SubSeq(text, n + 1, Len(text)))
         ELSE <<Head(text)>> \o ReplaceComments(Tail(text))

\* "Convert comments, footnotes, and endnotes": [text, counters]
ConvertNotes(text, counters) ==
    IF FindCommentStartPositive(text)
    THEN LET notes == ReplaceNotes(text, counters)
         IN [notes EXCEPT !.text = ReplaceComments(@)]
    ELSE [text |-> text, counters |-> counters]

\* Yw7File._convert_to_novx(text): [text, counters], counters being
\* _noteCounter and _noteNumber
ConvertToNovx(text, counters) ==
    IF text = <<>> THEN [text |-> <<>>, counters |-> counters]
    ELSE LET converted ==
                 ConvertNotes(ApplyReplacements(AcrossLinebreaks(text)),
                              counters)
         IN [converted EXCEPT
                 !.text = MarkQuotations(<<"<p>">> \o @ \o <<"</p>">>)]

(***************************************************************************)
(* NovxToShortcode (nvyw7lib/novx_to_shortcode.py), a sax.ContentHandler.  *)
(***************************************************************************)
StartTags == {"<p>", "<p style=\"quotations\">", "<em>", "<strong>",
              "<span xml:lang=\"de\">"}

EndTags == {"</p>", "</em>", "</strong>", "</span>"}

\* The start tags of the notes that replace_note writes
NoteStartTags ==
    {replace_note(noteType, <<>>, [noteCounter |-> 0, noteNumber |-> 0]).text[1] :
         noteType \in {"fn", "fn*", "en"}}

\* The start tag of a note of class "endnote"
EndnoteStartTag ==
    replace_note("en", <<>>, [noteCounter |-> 0, noteNumber |-> 0]).text[1]

\* The tags of the elements inside a paragraph that the handler knows beyond
\* those of a plain flow body: a span without xml:lang, a span of a second
\* language, comments and notes
InlineStartTags ==
    {"<span>", "<span xml:lang=\"en\">", "<comment>", "<note-citation>"}
        \cup NoteStartTags

InlineEndTags == {"</comment>", "</note>", "</note-citation>"}

\* The creator and the date of a comment, each an element with its text
CommentElements == {"<creator>", "<date>"}

\* The element name of a tag
ElementName(lex) ==
    CASE lex \in {"<p>", "<p style=\"quotations\">", "</p>"} -> "p"
      [] lex \in {"<em>", "</em>"} -> "em"
      [] lex \in {"<strong>", "</strong>"} -> "strong"
      [] lex \in {"<comment>", "</comment>"} -> "comment"
      [] lex \in NoteStartTags \cup {"</note>"} -> "note"
      [] lex \in {"<note-citation>", "</note-citation>"} -> "note-citation"
      [] OTHER -> "span"

\* locale of a span start tag, "" for None
Locale(lex) ==
    CASE lex = "<span xml:lang=\"de\">" -> "de"
      [] lex = "<span xml:lang=\"en\">" -> "en"
      [] OTHER -> ""

\* The handler after feed() has reset it; open is the parser's element stack
ParserNew ==
    [textList |-> <<>>, paragraph |-> FALSE, span |-> <<>>,
     comment |-> FALSE, open |-> <<>>, failed |-> FALSE]

\* NovxToShortcode.characters; the parser resolves the entity
Characters(ps, lex) ==
    IF ps.paragraph
    THEN [ps EXCEPT !.textList = Append(@, IF lex = "&gt;" THEN ">" ELSE lex)]
    ELSE ps

\* NovxToShortcode.startElement
StartElement(ps, lex) ==
    LET name == ElementName(lex) IN
    CASE name = "p" ->
           [ps EXCEPT !.paragraph = TRUE,
                      !.textList = IF lex = "<p style=\"quotations\">"
                                   THEN @ \o <<">", " ">> ELSE @]
      [] name = "em" -> [ps EXCEPT !.textList = Append(@, "[i]")]
      [] name = "strong" -> [ps EXCEPT !.textList = Append(@, "[b]")]
      [] name = "comment" -> [ps EXCEPT !.comment = TRUE,
                                        !.textList = Append(@, "/*")]
      [] name = "note" ->
           [ps EXCEPT !.comment = TRUE,
                      !.textList = @ \o <<"/*", IF lex = EndnoteStartTag
                                                THEN "@en " ELSE "@fn ">>]
      [] name = "note-citation" -> [ps EXCEPT !.paragraph = FALSE]
      [] OTHER ->
           IF Locale(lex) = "" THEN ps
           ELSE [ps EXCEPT
                    !.span = Append(@, "[/lang=" \o Locale(lex) \o "]"),
                    !.textList = Append(@, "[lang=" \o Locale(lex) \o "]")]

\* The closers on the span stack, top first
Reversed(stack) == [n \in 1..Len(stack) |-> stack[Len(stack) + 1 - n]]

\* NovxToShortcode.endElement of an element other than p
EndInline(ps, lex) ==
    LET name == ElementName(lex) IN
    CASE name = "em" -> [ps EXCEPT !.textList = Append(@, "[/i]")]
      [] name = "strong" -> [ps EXCEPT !.textList = Append(@, "[/b]")]
      [] name \in {"comment", "note"} ->
           [ps EXCEPT !.comment = FALSE, !.textList = Append(@, "*/")]
      [] name = "note-citation" -> [ps EXCEPT !.paragraph = TRUE]
      [] OTHER -> IF ps.span # <<>>
                  THEN [ps EXCEPT !.textList = Append(@, Last(ps.span)),
                                  !.span = Front(@)]
                  ELSE ps

\* endElement that ends a paragraph without the paragraph separator
EndElementNoSeparator(ps, lex) ==
    IF ElementName(lex) = "p"
    THEN [ps EXCEPT !.textList = @ \o Reversed(ps.span),
                    !.span = <<>>, !.paragraph = FALSE]
    ELSE EndInline(ps, lex)

\* NovxToShortcode.endElement
EndElement(ps, lex) ==
    IF ElementName(lex) = "p"
    THEN [ps EXCEPT !.textList = @ \o Reversed(ps.span)
                                   \o <<IF ps.comment THEN " " ELSE "\n">>,
                    !.span = <<>>, !.paragraph = FALSE]
    ELSE EndInline(ps, lex)

\* sax.parseString on one lexeme: a mismatched end tag raises
ParseLexeme(ps, lex) ==
    IF ps.failed THEN ps
    ELSE IF lex \in StartTags \cup InlineStartTags
         THEN [StartElement(ps, lex) EXCEPT !.open = Append(@, ElementName(lex))]
         ELSE IF lex \in EndTags \cup InlineEndTags
              THEN IF ps.open # <<>> /\ Last(ps.open) = ElementName(lex)
                   THEN [EndElement(ps, lex) EXCEPT !.open = Front(@)]
                   ELSE [ps EXCEPT !.failed = TRUE]
              ELSE IF lex \in CommentElements
                   \* startElement, characters and endElement of the element
                   THEN [ps EXCEPT !.paragraph = TRUE]
                   ELSE Characters(ps, lex)

RECURSIVE ParseAll(_, _)
ParseAll(ps, xmlString) ==
    IF xmlString = <<>> THEN ps
    ELSE ParseAll(ParseLexeme(ps, Head(xmlString)), Tail(xmlString))

\* NovxToShortcode.feed(f'<Content>{sectionContent}</Content>'): the handler
\* afterwards; an element still open at </Content> is a mismatched tag
Feed(xmlString) ==
    LET ps == ParseAll(ParserNew, xmlString)
    IN IF ps.open # <<>> THEN [ps EXCEPT !.failed = TRUE] ELSE ps

(***************************************************************************)
(* The two conversions of a section body as steps; a round trip is one of  *)
(* each.                                                                   *)
(***************************************************************************)
\* _read_scenes: prjScn.sectionContent = self._convert_to_novx(sceneContent)
convert_to_novx ==
    /\ cvHolds = "yw7"
    /\ cvSteps < 2
    /\ LET converted ==
               ConvertToNovx(sceneContent, [noteCounter |-> noteCounter,
                                            noteNumber |-> noteNumber])
       IN /\ sectionContent' = converted.text
          /\ noteCounter' = converted.counters.noteCounter
          /\ noteNumber' = converted.counters.noteNumber
    /\ cvHolds' = "novx"
    /\ cvSteps' = cvSteps + 1
    /\ UNCHANGED <<sceneContent, cvOriginal, fixerVars, diskVars, callVars,
                   ywTree, wcLog, novel>>

\* build_scene_subtree: feed the section content, SceneContent is the joined
\* textList; a parser exception ends the export
feed ==
    /\ cvHolds = "novx"
    /\ cvSteps < 2
    /\ LET ps == Feed(sectionContent) IN
       IF ps.failed
       THEN cvHolds' = "failed" /\ sceneContent' = sceneContent
       ELSE cvHolds' = "yw7" /\ sceneContent' = ps.textList
    /\ cvSteps' = cvSteps + 1
    /\ UNCHANGED <<sectionContent, cvOriginal, fixerVars, fileVars>>

ConverterNext == convert_to_novx \/ feed

\* Shortcode bodies: any sequence of shortcode lexemes
MaxShortcodeLen == 4

ShortcodeLexemes ==
    {"a", " ", "\n", ">", "[i]", "[/i]", "[b]", "[/b]", "[lang=de]",
     "[/lang=de]"}

ImportInit ==
    /\ FixerIdle
    /\ FileIdle
    /\ sceneContent \in SeqsUpTo(ShortcodeLexemes, MaxShortcodeLen)
    /\ sectionContent = <<>>
    /\ cvOriginal = sceneContent
    /\ cvHolds = "yw7"
    /\ cvSteps = 0

\* Import of a yw7 scene body, then export of the result
SpecImport == ImportInit /\ [][ConverterNext]_vars

\* Section bodies as novelibre holds them: a sequence of <p> paragraphs
\* (possibly empty, possibly quotations) with text and properly nested
\* <em>, <strong> and <span xml:lang> inside
MaxFlowLen == 5

FlowLexemes == StartTags \cup EndTags \cup {"a", " ", "&gt;"}

RECURSIVE IsFlowBody(_, _)
IsFlowBody(text, open) ==
    IF text = <<>> THEN open = <<>>
    ELSE LET lex == Head(text) IN
         IF lex \in StartTags
         THEN /\ (ElementName(lex) = "p") = (open = <<>>)
              /\ IsFlowBody(Tail(text), Append(open, ElementName(lex)))
         ELSE IF lex \in EndTags
              THEN /\ open # <<>>
                   /\ Last(open) = ElementName(lex)
                   /\ IsFlowBody(Tail(text), Front(open))
              ELSE open # <<>> /\ IsFlowBody(Tail(text), open)

ExportInit ==
    /\ FixerIdle
    /\ FileIdle
    /\ sectionContent \in {x \in SeqsUpTo(FlowLexemes, MaxFlowLen) :
                              IsFlowBody(x, <<>>)}
    /\ sceneContent = <<>>
    /\ cvOriginal = sectionContent
    /\ cvHolds = "novx"
    /\ cvSteps = 0

\* Export of a section body, then import of the result
SpecExport == ExportInit /\ [][ConverterNext]_vars

\* Scene bodies with comments and notes: any sequence of these lexemes
MaxNoteLen == 6

NoteLexemes == {"a", " */"} \cup CommentOpeners

NotesInit ==
    /\ FixerIdle
    /\ FileIdle
    /\ sceneContent \in SeqsUpTo(NoteLexemes, MaxNoteLen)
    /\ sectionContent = <<>>
    /\ cvOriginal = sceneContent
    /\ cvHolds = "yw7"
    /\ cvSteps = 0

\* Import of a yw7 scene body with comments and notes
SpecNotes == NotesInit /\ [][convert_to_novx]_vars

\* The citations of the notes in a converted body, in the order of the notes
RECURSIVE Citations(_)
Citations(text) ==
    IF Len(text) < 2 THEN <<>>
    ELSE IF Head(text) = "<note-citation>"
         THEN <<text[2]>> \o Citations(Tail(Tail(text)))
         ELSE Citations(Tail(text))

\* The citations of the note shortcodes of a scene body, each note reaching
\* from its opener to the next '*/': the running number, or '*' for a starred
\* footnote, which does not advance the number
RECURSIVE RunningCitations(_, _)
RunningCitations(text, number) ==
    IF text = <<>> THEN <<>>
    ELSE IF Head(text) \in NoteOpeners /\ FirstCloser(text) > 0
         THEN LET rest == SubSeq(text, FirstCloser(text) + 1, Len(text))
              IN IF Head(text) = "/* @fn* a"
                 THEN <<"*">> \o RunningCitations(rest, number)
                 ELSE <<ToString(number + 1)>>
                          \o RunningCitations(rest, number + 1)
         ELSE RunningCitations(Tail(text), number)

\* C12: Footnote numbering: for every scene body, wherever its note
\* shortcodes occur, the converted body holds one note per note shortcode,
\* cited by the running note number, or by '*' for a starred footnote.
C12_FootnoteNumbering ==
    cvHolds = "novx" =>
        Citations(sectionContent) = RunningCitations(cvOriginal, 0)

(***************************************************************************)
(* Properties of the section body conversions.                             *)
(***************************************************************************)
\* Replay of flow markup: TRUE iff every end tag closes the most recently
\* opened element that is still open, and nothing is left open
RECURSIVE XmlWellFormed(_, _)
XmlWellFormed(text, open) ==
    IF text = <<>> THEN open = <<>>
    ELSE LET lex == Head(text) IN
         IF lex \in StartTags
         THEN XmlWellFormed(Tail(text), Append(open, ElementName(lex)))
         ELSE IF lex \in EndTags
              THEN /\ open # <<>>
                   /\ Last(open) = ElementName(lex)
                   /\ XmlWellFormed(Tail(text), Front(open))
              ELSE XmlWellFormed(Tail(text), open)

ShortcodeOpeners == {"[i]", "[b]", "[lang=de]"}

ShortcodeClosers == {"[/i]", "[/b]", "[/lang=de]"}

CloserOf(lex) ==
    CASE lex = "[i]" -> "[/i]" [] lex = "[b]" -> "[/b]" [] OTHER -> "[/lang=de]"

\* TRUE iff the shortcode tags of one line are properly nested and closed
RECURSIVE TagsNested(_, _)
TagsNested(line, open) ==
    IF line = <<>> THEN open = <<>>
    ELSE LET lex == Head(line) IN
         IF lex \in ShortcodeOpeners
         THEN TagsNested(Tail(line), Append(open, CloserOf(lex)))
         ELSE IF lex \in ShortcodeClosers
              THEN /\ open # <<>>
                   /\ Last(open) = lex
                   /\ TagsNested(Tail(line), Front(open))
              ELSE TagsNested(Tail(line), open)

\* A shortcode body whose tags are balanced on every line
BalancedLines(text) ==
    \A n \in 1..Len(SplitLines(text)) : TagsNested(SplitLines(text)[n], <<>>)

\* C3: Flow round-trip (export then import): for every section body x that is
\* a sequence of <p> paragraphs (possibly empty, possibly quotations) with
\* text and properly nested <em>, <strong>, <span xml:lang>, feed() followed
\* by _convert_to_novx yields x again.
C3_FlowRoundTrip ==
    (cvSteps = 2 /\ IsFlowBody(cvOriginal, <<>>))
        => (cvHolds = "novx" /\ sectionContent = cvOriginal)

\* C4 as claimed: Shortcode round-trip: for every shortcode body s with
\* balanced tags on every line, _convert_to_novx followed by feed() yields
\* exactly the string s.
C4_ShortcodeRoundTrip ==
    (cvSteps = 2 /\ BalancedLines(cvOriginal))
        => (cvHolds = "yw7" /\ sceneContent = cvOriginal)

\* One pass for each tag, in the order of the tags, that deletes the adjacent
\* pairs of an opening and a closing tag from a line
StripEmptyPairs(line) ==
    RemovePairs(RemovePairs(RemovePairs(line, "[i]", "[/i]"),
                            "[b]", "[/b]"), "[lang=de]", "[/lang=de]")

\* A shortcode body without its empty tag pairs and its trailing whitespace
Normalized(text) ==
    LET lines == SplitLines(text)
    IN  RStrip(JoinLines([n \in 1..Len(lines) |-> StripEmptyPairs(lines[n])]))

\* C4 as amended: Shortcode round-trip: for every shortcode body s with
\* properly nested tags on every line, _convert_to_novx followed by feed()
\* yields the empty body if s is empty, and else s without its empty tag
\* pairs and its trailing whitespace, followed by one newline (the paragraph
\* separator of the last paragraph).
C4_ShortcodeRoundTripNewline ==
    (cvSteps = 2 /\ BalancedLines(cvOriginal))
        => /\ cvHolds = "yw7"
           /\ sceneContent = IF cvOriginal = <<>> THEN <<>>
                             ELSE Normalized(cvOriginal) \o <<"\n">>

\* C4 witness: an emphasized word followed by a plain one has been imported
\* and exported again, and has a newline at its end.
C4_Witness ==
    /\ cvSteps = 2
    /\ cvOriginal = <<"[i]", "a", "[/i]", "a">>
    /\ sceneContent = <<"[i]", "a", "[/i]", "a", "\n">>

\* C5: Markup well-formedness: for every shortcode body given to
\* _convert_to_novx the returned flow XML is well formed: every </em> and
\* </strong> closes the most recently opened unclosed element.
C5_MarkupWellFormed ==
    cvSteps = 1 => XmlWellFormed(sectionContent, <<>>)


\* isOpen at the start of line k, k = 1 being the first line
RECURSIVE IsOpenBefore(_, _)
IsOpenBefore(lines, k) ==
    IF k = 1 THEN [n \in 1..Len(ShortcodeTags) |-> FALSE]
    ELSE ProcessLine(lines[k - 1], IsOpenBefore(lines, k - 1), 1).isOpen

\* The line begins with the block quote marker '> '
StartsWithQuoteMarker(line) ==
    Len(line) >= 2 /\ line[1] = ">" /\ line[2] = " "

\* The paragraphs of a section body, each from its <p> to its </p>
RECURSIVE ParagraphsOf(_)
ParagraphsOf(text) ==
    IF text = <<>> THEN <<>>
    ELSE IF \A n \in 1..Len(text) : text[n] # "</p>" THEN <<text>>
    ELSE LET n == CHOOSE m \in 1..Len(text) :
                      text[m] = "</p>" /\ \A l \in 1..(m - 1) : text[l] # "</p>"
         IN  <<SubSeq(text, 1, n)>>
                 \o ParagraphsOf(SubSeq(text, n + 1, Len(text)))

\* C24: when a format or language tag opened on an earlier line is still
\* open at the start of a line that begins with the block quote marker '> ',
\* the paragraph of that line is emitted as <p style="quotations"> and has
\* the element of the tag inside it.
C24_BlockQuoteClosure ==
    cvSteps = 1 =>
        LET lines == SplitLines(cvOriginal)
            paragraphs == ParagraphsOf(sectionContent)
        IN  \A k \in 2..Len(lines) : \A n \in 1..Len(ShortcodeTags) :
                (IsOpenBefore(lines, k)[n] /\ StartsWithQuoteMarker(lines[k]))
                    => /\ Len(paragraphs) >= k
                       /\ Head(paragraphs[k]) = "<p style=\"quotations\">"
                       /\ Contains(paragraphs[k],
                                   XmlReplacement(Opening(ShortcodeTags[n]))[1])

(***************************************************************************)
(* XmlFixer of nvywlib (nvywlib/xml_fixer.py), the fixer that removes the  *)
(* nestings of <em> and <strong>.  Of an instance, fixFormat holds the     *)
(* flags _em and _strong and fixedXmlStr the list _fixedXml; fixInput is   *)
(* the text fed so far.                                                    *)
(***************************************************************************)
\* The instance after __init__
NestingFixerNew == [format |-> [em |-> FALSE, strong |-> FALSE], out |-> <<>>]

\* nvywlib XmlFixer.handle_data
NestingHandleData(fx, esc) ==
    [fx EXCEPT !.out = Append(@, DataLex(Escape(Unescape(esc))))]

\* nvywlib XmlFixer.handle_endtag
NestingHandleEndtag(fx, tag) ==
    IF ~fx.format[tag] THEN fx
    ELSE [fx EXCEPT !.format[tag] = FALSE, !.out = Append(@, EndLex(tag))]

\* nvywlib XmlFixer.handle_starttag
NestingHandleStarttag(fx, tag) ==
    IF tag = "em"
    THEN IF fx.format.em THEN fx
         ELSE [fx EXCEPT
                  !.format = [em |-> TRUE, strong |-> FALSE],
                  !.out = (IF fx.format.strong
                           THEN Append(@, EndLex("strong")) ELSE @)
                              \o <<StartLex("em", -1)>>]
    ELSE [fx EXCEPT
             !.format = [em |-> FALSE, strong |-> TRUE],
             !.out = (IF fx.format.em THEN Append(@, EndLex("em")) ELSE @)
                         \o <<StartLex("strong", -1)>>]

NestingDispatch(fx, lex) ==
    CASE lex.k = "start" -> NestingHandleStarttag(fx, lex.tag)
      [] lex.k = "end" -> NestingHandleEndtag(fx, lex.tag)
      [] OTHER -> NestingHandleData(fx, lex.esc)

\* nvywlib XmlFixer.feed: the string returned for the list _fixedXml
NestingFeedReturns(out) ==
    RemovePairs(RemovePairs(out, StartLex("strong", -1), EndLex("strong")),
                StartLex("em", -1), EndLex("em"))

NestingFixerStep(lex) ==
    /\ Len(fixInput) < MaxFixLen
    /\ UNCHANGED <<converterVars, fileVars>>
    /\ fixInput' = Append(fixInput, lex)
    /\ LET fx == NestingDispatch([format |-> fixFormat, out |-> fixedXmlStr],
                                 lex)
       IN  fixFormat' = fx.format /\ fixedXmlStr' = fx.out

nesting_handle_starttag ==
    \E tag \in FormatTags : NestingFixerStep(StartLex(tag, -1))

nesting_handle_endtag ==
    \E tag \in FormatTags : NestingFixerStep(EndLex(tag))

nesting_handle_data ==
    \E esc \in -1..MaxEsc : NestingFixerStep(DataLex(esc))

NestingFixerInit ==
    /\ fixInput = <<>>
    /\ fixFormat = NestingFixerNew.format
    /\ fixedXmlStr = NestingFixerNew.out
    /\ ConverterIdle
    /\ FileIdle

\* Texts of <em> and <strong> tags and character data fed to an XmlFixer of
\* nvywlib
SpecNestingFixer ==
    NestingFixerInit
        /\ [][nesting_handle_starttag \/ nesting_handle_endtag
                  \/ nesting_handle_data]_vars

\* Replay of a returned string: a start tag comes only while no em or strong
\* is open, an end tag only for the tag that is open
RECURSIVE NoNesting(_, _)
NoNesting(out, open) ==
    IF out = <<>> THEN TRUE
    ELSE LET lex == Head(out) IN
         IF lex.k = "start"
         THEN open = "" /\ NoNesting(Tail(out), lex.tag)
         ELSE IF lex.k = "end"
              THEN open = lex.tag /\ NoNesting(Tail(out), "")
              ELSE NoNesting(Tail(out), open)

\* C27: in the string that feed() of the nvywlib XmlFixer returns, at most
\* one of em and strong is open at any point and never the same one twice,
\* every end tag closes the start tag before it, and no '<em></em>' or
\* '<strong></strong>' remains.
C27_NestingsRemoved ==
    LET returned == NestingFeedReturns(fixedXmlStr) IN
    /\ NoNesting(returned, "")
    /\ \A n \in 1..(Len(returned) - 1) :
           ~(/\ returned[n].k = "start"
             /\ returned[n + 1].k = "end"
             /\ returned[n + 1].tag = returned[n].tag)

(***************************************************************************)
(* Section bodies with nested spans, with comments and with notes.         *)
(***************************************************************************)
\* The content of a paragraph with spans: any well formed sequence
MaxSpanLen == 5

SpanLexemes ==
    {"<span>", "<span xml:lang=\"de\">", "<span xml:lang=\"en\">", "</span>",
     "a"}

\* Every </span> has its start tag, and depth spans are open at the end
RECURSIVE SpansNested(_, _)
SpansNested(text, depth) ==
    IF text = <<>> THEN depth = 0
    ELSE IF Head(text) = "</span>"
         THEN depth > 0 /\ SpansNested(Tail(text), depth - 1)
         ELSE IF Head(text) = "a" THEN SpansNested(Tail(text), depth)
              ELSE SpansNested(Tail(text), depth + 1)

SpanBodies ==
    {<<"<p>">> \o x \o <<"</p>">> :
        x \in {y \in SeqsUpTo(SpanLexemes, MaxSpanLen) : SpansNested(y, 0)}}

\* The text in a note or comment, and the text that follows the element
MaxInlineLen == 2

\* A paragraph with a comment or a note as _convert_to_novx writes them,
\* between text
InlineBodies ==
    {<<"<p>">> \o pre \o inline \o post \o <<"</p>">> :
        pre \in SeqsUpTo({"a"}, 1),
        inline \in
            {replace_comment(content) : content \in SeqsUpTo({"a"}, 1)}
            \cup {replace_note(noteType, content,
                               [noteCounter |-> 0, noteNumber |-> 0]).text :
                      noteType \in {"fn", "fn*", "en"},
                      content \in SeqsUpTo({"a"}, 1)},
        post \in SeqsUpTo({"a", " "}, MaxInlineLen)}

InlineInit ==
    /\ FixerIdle
    /\ FileIdle
    /\ sectionContent \in SpanBodies \cup InlineBodies
    /\ sceneContent = <<>>
    /\ cvOriginal = sectionContent
    /\ cvHolds = "novx"
    /\ cvSteps = 0

\* Export of a section body with spans, comments or notes
SpecInline == InlineInit /\ [][feed]_vars

\* The shortcode of a body in which every </span> closes the span of its own
\* start tag; open holds the start tags of the open spans
RECURSIVE SpansUnwound(_, _)
SpansUnwound(text, open) ==
    IF text = <<>> THEN <<>>
    ELSE LET lex == Head(text) IN
         IF lex = "<p>" THEN SpansUnwound(Tail(text), open)
         ELSE IF lex = "</p>" THEN <<"\n">> \o SpansUnwound(Tail(text), open)
         ELSE IF lex = "a" THEN <<"a">> \o SpansUnwound(Tail(text), open)
         ELSE IF lex = "</span>"
         THEN (IF Locale(Last(open)) = "" THEN <<>>
               ELSE <<"[/lang=" \o Locale(Last(open)) \o "]">>)
                  \o SpansUnwound(Tail(text), Front(open))
         ELSE (IF Locale(lex) = "" THEN <<>>
               ELSE <<"[lang=" \o Locale(lex) \o "]">>)
                  \o SpansUnwound(Tail(text), Append(open, lex))

\* C25: for every nesting of <span> elements, with or without xml:lang, each
\* </span> emits exactly the closer of the opener that its own start tag
\* emitted, and nothing for a span without xml:lang.
C25_SpanUnwinding ==
    (cvSteps = 1 /\ cvOriginal \in SpanBodies)
        => /\ cvHolds = "yw7"
           /\ sceneContent = SpansUnwound(cvOriginal, <<>>)

\* The position of the first of the lexemes in the text
FirstOf(text, lexemes) ==
    CHOOSE n \in 1..Len(text) :
        text[n] \in lexemes /\ \A m \in 1..(n - 1) : text[m] \notin lexemes

\* C28: in a paragraph with a comment or a note followed by character data,
\* the character data after the closing tag is emitted after the '*/' and
\* before the newline that ends the paragraph.
C28_TextAfterInline ==
    (cvSteps = 1 /\ cvOriginal \in InlineBodies)
        => LET n == FirstOf(cvOriginal, {"</comment>", "</note>"})
               post == SubSeq(cvOriginal, n + 1, Len(cvOriginal) - 1)
           IN  /\ cvHolds = "yw7"
               /\ Contains(sceneContent, "*/")
               /\ SubSeq(sceneContent, FirstOf(sceneContent, {"*/"}) + 1,
                         Len(sceneContent)) = post \o <<"\n">>

(***************************************************************************)
(* The Novel and the yw7 document.  IDs are numbers: the prefix of a       *)
(* novelibre ID ('ch', 'sc', 'ac', 'ap', ...) is given by the collection   *)
(* the ID is in, the yw7 <ID> text is the ID without its prefix.  A dict   *)
(* is the sequence of its values in insertion order, each with its key as  *)
(* "id".                                                                   *)
(*   novel.chapters     tree children of CH_ROOT, each with the IDs of     *)
(*                      its sections (tree children of the chapter)        *)
(*   novel.sections     dict of [id, scType, tags, sectionContent]; of the *)
(*                      content, the model keeps the notes that are in it, *)
(*                      each with its type and the number of its id        *)
(*   novel.plotLines    dict of [id, shortName, sections]                  *)
(*   novel.plTree       tree children of PL_ROOT, each with its points     *)
(*   novel.plotPoints   dict of [id, sectionAssoc], 0 for None             *)
(***************************************************************************)
STAGE_MARKER == "stage"

Range(list) == {list[n] : n \in 1..Len(list)}

Ids(dict) == [n \in 1..Len(dict) |-> dict[n].id]

HasKey(dict, id) == \E n \in 1..Len(dict) : dict[n].id = id

DictGet(dict, id) == dict[CHOOSE n \in 1..Len(dict) : dict[n].id = id]

\* dict[rec.id] = rec
DictPut(dict, rec) ==
    IF HasKey(dict, rec.id)
    THEN [n \in 1..Len(dict) |-> IF dict[n].id = rec.id THEN rec ELSE dict[n]]
    ELSE Append(dict, rec)

\* Python's truth value of a list or None
Truthy(value) == ~value.isNone /\ value.list # <<>>

\* A broken create_id: the number of elements plus one
CreateIdByCount(elements) == Len(elements) + 1

\* novxlib create_id(elements, prefix): the prefix with the smallest number
\* from 1 that is not among the elements
create_id(elements) ==
    CHOOSE i \in 1..(Len(elements) + 1) :
        /\ i \notin Range(elements)
        /\ \A j \in 1..(i - 1) : j \in Range(elements)

\* scId = create_id(scIds, ...); scIds.append(scId), count times: the new IDs
RECURSIVE AllocIds(_, _)
AllocIds(count, elements) ==
    IF count = 0 THEN <<>>
    ELSE LET newId == create_id(elements) IN
         <<newId>> \o AllocIds(count - 1, Append(elements, newId))

\* novxlib list_to_string(elements): the elements joined with ';'
RECURSIVE list_to_string(_)
list_to_string(elements) ==
    IF elements = <<>> THEN <<>>
    ELSE IF Len(elements) = 1 THEN elements
    ELSE <<Head(elements), ";">> \o list_to_string(Tail(elements))

\* The first occurrence of each element
RECURSIVE Dedupe(_)
Dedupe(list) ==
    IF list = <<>> THEN <<>>
    ELSE LET front == Dedupe(Front(list)) IN
         IF Contains(front, Last(list)) THEN front
         ELSE Append(front, Last(list))

\* novxlib string_to_list(text): the text split at ';', each element
\* stripped, empty elements and repetitions dropped.  An element is one
\* lexeme here, so the split is the text without its dividers.
string_to_list(text) ==
    LET IsElement(lex) == lex \notin {";", "", " "}
    IN  Dedupe(SelectSeq(text, IsElement))

\* _strip_spaces(lines): every element stripped; the elements of
\* string_to_list are stripped already
strip_spaces(lines) == lines


(***************************************************************************)
(* Yw7File._build_element_tree: the yw7 document of the novel.             *)
(***************************************************************************)
\* The language and country codes that look plausible: two characters
TwoCharacterCodes == {"de", "en", "DE", "US"}

\* locale.getlocale() of the system the program runs on
SystemLocale == [languageCode |-> "en", countryCode |-> "US"]

\* novxlib Novel.check_locale(): a missing language code is replaced with the
\* system locale, a locale that does not look plausible with "no language"
check_locale(prjNovel) ==
    IF prjNovel.languageCode = ""
    THEN [prjNovel EXCEPT !.languageCode = SystemLocale.languageCode,
                          !.countryCode = SystemLocale.countryCode]
    ELSE IF /\ prjNovel.languageCode \in TwoCharacterCodes
            /\ prjNovel.countryCode \in TwoCharacterCodes
         THEN prjNovel
         ELSE [prjNovel EXCEPT !.languageCode = "zxx",
                               !.countryCode = "none"]

\* novxlib Novel.get_languages(): the language codes found in the section
\* contents; the section contents of the model hold notes and no language
\* spans
get_languages(prjNovel) == [prjNovel EXCEPT !.languages = Some(<<>>)]

\* A project variable whose ID is not added to the caller's prjVars
AddProjectvariableNoSideEffect(xmlProjectvars, title, desc, tags) ==
    Append(xmlProjectvars, [ID |-> create_id(<<>>), Title |-> title,
                            Desc |-> desc, Tags |-> tags])

\* add_projectvariable: the PROJECTVAR elements with the new one; the IDs of
\* the elements are the caller's prjVars
add_projectvariable(xmlProjectvars, title, desc, tags) ==
    LET prjVars == [n \in 1..Len(xmlProjectvars) |-> xmlProjectvars[n].ID]
    IN  Append(xmlProjectvars, [ID |-> create_id(prjVars), Title |-> title,
                                Desc |-> desc, Tags |-> tags])

\* "for langCode in self.novel.languages": the opening and the closing
\* variable of each language code tag
RECURSIVE AddLanguageTags(_, _)
AddLanguageTags(xmlProjectvars, languages) ==
    IF languages = <<>> THEN xmlProjectvars
    ELSE LET langCode == Head(languages)
             opened == add_projectvariable(xmlProjectvars,
                           <<"lang=", langCode>>,
                           <<"<HTM <SPAN LANG=\"", langCode, "\"> /HTM>">>,
                           "0")
         IN  AddLanguageTags(
                 add_projectvariable(opened, <<"/lang=", langCode>>,
                                     <<"<HTM </SPAN> /HTM>">>, "0"),
                 Tail(languages))

\* "Process project variables", after check_locale(): a title and a
\* description are sequences of lexemes
build_projectvars(prjNovel) ==
    AddLanguageTags(
        add_projectvariable(
            add_projectvariable(<<>>, <<"Language">>,
                                <<prjNovel.languageCode>>, "0"),
            <<"Country">>, <<prjNovel.countryCode>>, "0"),
        prjNovel.languages.list)

\* scTypeEncoding: (Unused, Field_SceneType) by the yw7 scene type
scTypeEncoding ==
    << <<FALSE, "none">>, <<TRUE, "1">>, <<TRUE, "2">>, <<TRUE, "0">> >>

\* NovxToShortcode.startElement on the notes of a section: '@en' for the
\* class "endnote", '@fn' for every other note
NoteShortcodes(notes) ==
    [k \in 1..Len(notes) |->
        IF notes[k].noteType = "en" THEN "en" ELSE "fn"]

\* build_scene_subtree of a section: the SCENE element, and the section as
\* the call leaves it.  scTags is the section's own list, not a copy:
\* append() changes the section, a new list does not.
build_scene_subtree(scId, prjScn) ==
    LET marks == prjScn.scType > 1
        scTags == IF ~marks THEN prjScn.tags
                  ELSE IF ~Truthy(prjScn.tags) THEN Some(<<STAGE_MARKER>>)
                  ELSE IF ~Contains(prjScn.tags.list, STAGE_MARKER)
                       THEN Some(Append(prjScn.tags.list, STAGE_MARKER))
                       ELSE prjScn.tags
        scType == IF prjScn.scType = 0 THEN 0
                  ELSE IF prjScn.scType > 1 THEN 2 ELSE 3
        \* Write scene start
        specific == prjScn.date # "" /\ prjScn.time # <<>>
        unspecific == ~specific /\ prjScn.time # <<>>
    IN  [xml |-> [ID |-> scId,
                  Unused |-> scTypeEncoding[scType + 1][1],
                  Field_SceneType |-> scTypeEncoding[scType + 1][2],
                  Status |-> IF prjScn.status # 0
                             THEN ToString(prjScn.status) ELSE "",
                  SceneContent |-> NoteShortcodes(prjScn.sectionContent),
                  Tags |-> IF Truthy(scTags)
                           THEN Some(list_to_string(scTags.list)) ELSE None,
                  SpecificDateTime |-> IF specific
                                       THEN <<prjScn.date>> \o prjScn.time
                                       ELSE <<>>,
                  Day |-> IF specific THEN "" ELSE prjScn.day,
                  Hour |-> IF unspecific THEN prjScn.time[1] ELSE "",
                  Minute |-> IF unspecific THEN prjScn.time[2] ELSE "",
                  Field_SceneArcs |-> <<>>,
                  Field_SceneAssoc |-> <<>>],
         prjScn |-> IF marks /\ Truthy(prjScn.tags)
                    THEN [prjScn EXCEPT !.tags = scTags] ELSE prjScn]

\* build_scene_subtree of a plot point (plotPoint=True)
build_plot_point_subtree(scId) ==
    [ID |-> scId, Unused |-> scTypeEncoding[3][1],
     Field_SceneType |-> scTypeEncoding[3][2], Status |-> "1",
     SceneContent |-> <<>>, Tags |-> None,
     SpecificDateTime |-> <<>>, Day |-> "", Hour |-> "", Minute |-> "",
     Field_SceneArcs |-> <<>>, Field_SceneAssoc |-> <<>>]

\* chTypeEncoding: (Unused, Type, ChapterType) by the yw7 chapter type
chTypeEncoding ==
    << <<FALSE, "0", "0">>, <<TRUE, "1", "1">>, <<TRUE, "1", "2">>,
       <<TRUE, "1", "0">> >>

\* build_chapter_subtree: the CHAPTER element.  isPlotLine is "plId is not
\* None", chType = -1 is "chType is None"
build_chapter_subtree(chId, prjChp, isPlotLine, chTypeArg, scenes) ==
    LET chType == IF chTypeArg # -1 THEN chTypeArg
                  ELSE IF isPlotLine THEN 2
                  ELSE IF prjChp.chType = 0 THEN 0 ELSE 3
    IN  [ID |-> chId,
         Unused |-> chTypeEncoding[chType + 1][1],
         Type |-> chTypeEncoding[chType + 1][2],
         ChapterType |-> chTypeEncoding[chType + 1][3],
         Field_ArcDefinition |-> IF isPlotLine THEN prjChp.shortName ELSE "",
         Field_Arc_Definition |-> "",
         SectionStart |-> ~isPlotLine /\ prjChp.chLevel = 1,
         Scenes |-> scenes]

\* The children of a plot line in the tree
PointsOf(prjNovel, plId) ==
    IF HasKey(prjNovel.plTree, plId)
    THEN DictGet(prjNovel.plTree, plId).points ELSE <<>>

\* scPlotLines[scId] of a section (ppId = 0) or of the scene of a plot point
\* (scId = 0): the short names, in the order of novel.plotLines
RECURSIVE ScPlotLines(_, _, _, _)
ScPlotLines(prjNovel, plotLines, scId, ppId) ==
    IF plotLines = <<>> THEN <<>>
    ELSE LET plotLine == Head(plotLines)
             uses == IF ppId = 0 THEN Count(plotLine.sections, scId)
                     ELSE Count(PointsOf(prjNovel, plotLine.id), ppId)
         IN  Repeat(plotLine.shortName, uses)
                 \o ScPlotLines(prjNovel, Tail(plotLines), scId, ppId)

\* sectionAssoc[scId] of a section: the scenes of the plot points that are
\* associated with it, in the order of novel.plotPoints
SectionAssocOf(prjNovel, newScIds, scId) ==
    LET n == Len(prjNovel.plotPoints)
        Assoc(k) == prjNovel.plotPoints[k].sectionAssoc = scId
        picked == SelectSeq([k \in 1..n |-> k], Assoc)
    IN  [m \in 1..Len(picked) |-> newScIds[picked[m]]]

\* A word count log that keeps every entry
BuildWclogKeepAll(entries, last, saveWordCount) == entries

\* Build the word count log: with saveWordCount, entries that repeat the
\* counts of the entry before are discarded
RECURSIVE build_wclog(_, _, _)
build_wclog(entries, last, saveWordCount) ==
    IF entries = <<>> THEN <<>>
    ELSE LET wc == Head(entries) IN
         IF saveWordCount /\ <<wc.count, wc.totalCount>> = last
         THEN build_wclog(Tail(entries), last, saveWordCount)
         ELSE <<wc>> \o build_wclog(Tail(entries),
                           IF saveWordCount THEN <<wc.count, wc.totalCount>>
                           ELSE last, saveWordCount)


\* _build_element_tree: the document, and the novel as the call leaves it
build_element_tree(prjNovel, prjWcLog) ==
    LET sections == prjNovel.sections
        \* Process project variables
        hasLocale == \/ Truthy(prjNovel.languages)
                     \/ prjNovel.languageCode # ""
                     \/ prjNovel.countryCode # ""
        located == IF hasLocale THEN check_locale(prjNovel) ELSE prjNovel
        built == [n \in 1..Len(sections) |->
                     build_scene_subtree(sections[n].id, sections[n])]
        \* Process plot points: a new scene ID for each
        plotPoints == prjNovel.plotPoints
        newScIds == AllocIds(Len(plotPoints), Ids(sections))
        NewScId(ppId) ==
            newScIds[CHOOSE k \in 1..Len(plotPoints) : plotPoints[k].id = ppId]
        \* Process chapters
        chapters == prjNovel.chapters
        xmlChapters == [n \in 1..Len(chapters) |->
                           build_chapter_subtree(chapters[n].id, chapters[n],
                               FALSE, -1, chapters[n].sections)]
        \* Process plot lines: a chapter for the "Plot lines" part, then one
        \* for each plot line
        plTree == prjNovel.plTree
        newChIds == AllocIds(1 + Len(plTree), Ids(chapters))
        arcPart == [chType |-> 0, chLevel |-> 1]
        xmlArcPart == build_chapter_subtree(newChIds[1], arcPart, FALSE, 2,
                                            <<>>)
        xmlPlotLines == [n \in 1..Len(plTree) |->
                            build_chapter_subtree(newChIds[n + 1],
                                DictGet(prjNovel.plotLines, plTree[n].id),
                                TRUE, -1,
                                [m \in 1..Len(plTree[n].points) |->
                                    NewScId(plTree[n].points[m])])]
        \* Add plot line/scene references; the IDs of Field_SceneAssoc are
        \* kept as the list that list_to_string joins
        xmlScenes == [n \in 1..Len(sections) |->
                         [built[n].xml EXCEPT
                             !.Field_SceneArcs = list_to_string(
                                 ScPlotLines(prjNovel, prjNovel.plotLines,
                                             sections[n].id, 0)),
                             !.Field_SceneAssoc =
                                 SectionAssocOf(prjNovel, newScIds,
                                                sections[n].id)]]
        xmlPoints == [k \in 1..Len(plotPoints) |->
                         [build_plot_point_subtree(newScIds[k]) EXCEPT
                             !.Field_SceneArcs = list_to_string(
                                 ScPlotLines(prjNovel, prjNovel.plotLines,
                                             0, plotPoints[k].id)),
                             !.Field_SceneAssoc =
                                 IF plotPoints[k].sectionAssoc = 0 THEN <<>>
                                 ELSE <<plotPoints[k].sectionAssoc>>]]
    IN  [doc |-> [LOCATIONS |-> prjNovel.locations,
                  ITEMS |-> prjNovel.items,
                  CHARACTERS |-> prjNovel.characters,
                  PROJECTVARS |-> IF hasLocale THEN build_projectvars(located)
                                  ELSE <<>>,
                  SCENES |-> xmlScenes \o xmlPoints,
                  CHAPTERS |-> xmlChapters \o <<xmlArcPart>> \o xmlPlotLines,
                  PROJECTNOTES |-> prjNovel.projectNotes,
                  WCLog |-> build_wclog(prjWcLog, <<-1, -1>>,
                                        prjNovel.saveWordCount)],
         novel |-> [located EXCEPT
                       !.sections = [n \in 1..Len(sections) |->
                                        built[n].prjScn]]]


(***************************************************************************)
(* Yw7File.read: the novel from the yw7 document.                          *)
(***************************************************************************)
\* _read_chapters: the chapter type of a CHAPTER element; a <Type> or a
\* <ChapterType> that the element does not have is ""
ReadChType(xmlChapter) ==
    IF xmlChapter.ChapterType # ""
    THEN IF xmlChapter.ChapterType = "2" THEN 1
         ELSE IF xmlChapter.ChapterType = "1" THEN 1
         ELSE IF xmlChapter.Unused THEN 1 ELSE 0
    ELSE IF xmlChapter.Type # ""
         THEN IF xmlChapter.Type = "1" THEN 1
              ELSE IF xmlChapter.Unused THEN 1 ELSE 0
         ELSE 0

\* The scenes of a plot line are not registered
PlotPointIdsNotRegistered(ywApIds, xmlChapter) == ywApIds

\* _read_chapters: the scenes of a plot line are registered as plot points
PlotPointIds(ywApIds, xmlChapter) == ywApIds \o xmlChapter.Scenes

\* _read_chapters, from the chapter at position n on: a chapter with a
\* Field_ArcDefinition becomes a plot line and its scenes plot points,
\* every other chapter a chapter of the novel
RECURSIVE read_chapters(_, _, _, _)
read_chapters(prjNovel, ywApIds, xmlChapters, n) ==
    IF n > Len(xmlChapters) THEN [novel |-> prjNovel, ywApIds |-> ywApIds]
    ELSE LET xmlChapter == xmlChapters[n]
             \* the text of an empty Field_Arc_Definition is None
             shortName == IF xmlChapter.Field_Arc_Definition # ""
                          THEN xmlChapter.Field_Arc_Definition
                          ELSE xmlChapter.Field_ArcDefinition
         IN  IF shortName # ""
             THEN read_chapters(
                      [prjNovel EXCEPT
                          !.plotLines = DictPut(@, [id |-> xmlChapter.ID,
                                                   shortName |-> shortName,
                                                   sections |-> <<>>]),
                          !.plTree = Append(@, [id |-> xmlChapter.ID,
                                                points |-> xmlChapter.Scenes])],
                      PlotPointIds(ywApIds, xmlChapter), xmlChapters, n + 1)
             ELSE read_chapters(
                      [prjNovel EXCEPT
                          !.chapters = Append(@,
                              [id |-> xmlChapter.ID,
                               chType |-> ReadChType(xmlChapter),
                               chLevel |-> IF xmlChapter.SectionStart
                                           THEN 1 ELSE 2,
                               sections |-> xmlChapter.Scenes])],
                      ywApIds, xmlChapters, n + 1)

\* _read_scenes: the section joins the first plot line that has the short
\* name, if its type is normal when the plot lines are read
RECURSIVE JoinPlotLines(_, _, _)
JoinPlotLines(plotLines, shortNames, scId) ==
    IF shortNames = <<>> THEN plotLines
    ELSE LET Named(k) == plotLines[k].shortName = Head(shortNames)
             found == SelectSeq([k \in 1..Len(plotLines) |-> k], Named)
         IN  JoinPlotLines(
                 IF found = <<>> THEN plotLines
                 ELSE [plotLines EXCEPT
                          ![found[1]].sections = Append(@, scId)],
                 Tail(shortNames), scId)

\* _convert_to_novx, replace_note: the counters after the notes of one scene
RECURSIVE CountNotes(_, _)
CountNotes(counters, notes) ==
    IF notes = <<>> THEN counters
    ELSE CountNotes([noteCounter |-> counters.noteCounter + 1,
                     noteNumber |-> IF Head(notes) = "fn*"
                                    THEN counters.noteNumber
                                    ELSE counters.noteNumber + 1],
                    Tail(notes))

\* _convert_to_novx, replace_note: the note elements of one scene, each with
\* the number in its id 'ftn<number>'
NoteElements(counters, notes) ==
    [k \in 1..Len(notes) |->
        [noteType |-> notes[k],
         id |-> CountNotes(counters, SubSeq(notes, 1, k)).noteCounter]]

\* The texts that int() accepts, and their values
Integers1To5 == {"1", "2", "3", "4", "5"}

\* int(text) of such a text
IntOf(text) == CHOOSE n \in 1..5 : ToString(n) = text

\* The dates in ISO format, and the two-digit hours, minutes and seconds
IsoDates == {"2024-01-02"}

TwoDigits == {"00", "05", "09", "12", "30"}

\* str.zfill(2)
Zfill2(text) ==
    IF text \in {"0", "1", "2", "3", "4", "5", "6", "7", "8", "9"}
    THEN "0" \o text ELSE text

\* datetime.fromisoformat(dateTimeStr) does not raise: the text is a date,
\* or a date, a separator and a time; the lexemes of such a text are the
\* date, the hours, the minutes and the seconds
IsIsoFormat(dateTimeStr) ==
    /\ Len(dateTimeStr) \in {1, 4}
    /\ dateTimeStr[1] \in IsoDates
    /\ \A n \in 2..Len(dateTimeStr) : dateTimeStr[n] \in TwoDigits

\* _read_scenes, "Scene start": date, time and day of the section; a
\* <SpecificDateTime>, <Day>, <Hour> or <Minute> that the element does not
\* have is empty
SceneStart(xmlScene) ==
    IF xmlScene.SpecificDateTime # <<>>
    THEN IF IsIsoFormat(xmlScene.SpecificDateTime)
         THEN [date |-> xmlScene.SpecificDateTime[1],
               time |-> IF Len(xmlScene.SpecificDateTime) = 1
                        THEN <<"00", "00", "00">>
                        ELSE Tail(xmlScene.SpecificDateTime),
               day |-> ""]
         ELSE [date |-> "", time |-> <<>>, day |-> ""]
    ELSE LET hasUnspecificTime == xmlScene.Hour # "" \/ xmlScene.Minute # ""
             hour == IF xmlScene.Hour # "" THEN Zfill2(xmlScene.Hour)
                     ELSE "00"
             minute == IF xmlScene.Minute # "" THEN Zfill2(xmlScene.Minute)
                       ELSE "00"
         IN  [date |-> "",
              time |-> IF hasUnspecificTime THEN <<hour, minute, "00">>
                       ELSE <<>>,
              day |-> IF xmlScene.Day \in Integers1To5 THEN xmlScene.Day
                      ELSE ""]

\* _read_scenes, from the scene at position n on
RECURSIVE read_scenes(_, _, _, _, _)
read_scenes(prjNovel, counters, ywApIds, xmlScenes, n) ==
    IF n > Len(xmlScenes) THEN [novel |-> prjNovel, counters |-> counters]
    ELSE LET xmlScene == xmlScenes[n]
             fieldType == IF xmlScene.Field_SceneType \in {"1", "2"}
                          THEN 1 ELSE 0
             ywScnArcs == string_to_list(xmlScene.Field_SceneArcs)
             plotLines == IF fieldType = 0
                          THEN JoinPlotLines(prjNovel.plotLines, ywScnArcs,
                                             xmlScene.ID)
                          ELSE prjNovel.plotLines
             ywScnAssocs == Dedupe(xmlScene.Field_SceneAssoc)
             scType == IF xmlScene.Unused /\ fieldType = 0 THEN 1
                       ELSE fieldType
             tags == IF xmlScene.Tags.isNone \/ xmlScene.Tags.list = <<>>
                     THEN None
                     ELSE Some(strip_spaces(string_to_list(
                                   xmlScene.Tags.list)))
             isStage == Truthy(tags) /\ Contains(tags.list, STAGE_MARKER)
             \* prjScn.tags = prjScn.tags.remove(...): remove() returns None
             start == SceneStart(xmlScene)
             prjScn == [id |-> xmlScene.ID,
                        scType |-> IF isStage THEN 3 ELSE scType,
                        status |-> IF xmlScene.Status # ""
                                   THEN IntOf(xmlScene.Status) ELSE 0,
                        tags |-> IF isStage THEN None ELSE tags,
                        sectionContent |->
                            NoteElements(counters, xmlScene.SceneContent),
                        date |-> start.date, time |-> start.time,
                        day |-> start.day]
             plotPoint == [id |-> xmlScene.ID,
                           sectionAssoc |-> IF ywScnAssocs = <<>> THEN 0
                                            ELSE ywScnAssocs[1]]
         IN  read_scenes(
                 IF Contains(ywApIds, xmlScene.ID)
                 THEN [prjNovel EXCEPT !.plotLines = plotLines,
                                       !.plotPoints = DictPut(@, plotPoint)]
                 ELSE [prjNovel EXCEPT !.plotLines = plotLines,
                                       !.sections = DictPut(@, prjScn)],
                 CountNotes(counters, xmlScene.SceneContent),
                 ywApIds, xmlScenes, n + 1)

\* read: Read the word count log
RECURSIVE read_wclog(_, _)
read_wclog(prjWcLog, xmlWclog) ==
    IF xmlWclog = <<>> THEN prjWcLog
    ELSE read_wclog(DictPut(prjWcLog, Head(xmlWclog)), Tail(xmlWclog))

\* _read_projectvars: the locale and the language codes of the novel
RECURSIVE read_projectvars(_, _)
read_projectvars(prjNovel, xmlProjectvars) ==
    IF xmlProjectvars = <<>> THEN prjNovel
    ELSE LET xmlProjectvar == Head(xmlProjectvars)
             title == xmlProjectvar.Title
             langCode == title[2]
         IN  read_projectvars(
                 IF title = <<"Language">>
                 THEN [prjNovel EXCEPT
                          !.languageCode = xmlProjectvar.Desc[1]]
                 ELSE IF title = <<"Country">>
                 THEN [prjNovel EXCEPT !.countryCode = xmlProjectvar.Desc[1]]
                 ELSE IF Head(title) = "lang="
                 THEN [prjNovel EXCEPT
                          !.languages =
                              IF @.isNone THEN Some(<<langCode>>)
                              ELSE Some(Append(@.list, langCode))]
                 ELSE prjNovel,
                 Tail(xmlProjectvars))

\* The counters are left as the call before left them
CountersKept == [noteCounter |-> noteCounter, noteNumber |-> noteNumber]

\* read: self._noteCounter = 0, self._noteNumber = 0
InitialCounters == [noteCounter |-> 0, noteNumber |-> 0]

\* read, from "self._ywApIds = []" on: the novel and the counters
read_element_tree(prjNovel, doc) ==
    LET cleared == [prjNovel EXCEPT !.locations = doc.LOCATIONS,
                                    !.items = doc.ITEMS,
                                    !.characters = doc.CHARACTERS,
                                    !.chapters = <<>>,
                                    !.plTree = <<>>]
        chaptersRead == read_chapters(
                            read_projectvars(cleared, doc.PROJECTVARS),
                            <<>>, doc.CHAPTERS, 1)
        scenesRead == read_scenes(chaptersRead.novel, InitialCounters,
                                  chaptersRead.ywApIds, doc.SCENES, 1)
        \* fix missing scene status
        sections == scenesRead.novel.sections
        fixed == [n \in 1..Len(sections) |->
                     IF sections[n].status = 0
                     THEN [sections[n] EXCEPT !.status = 1] ELSE sections[n]]
    IN  [novel |-> check_locale([scenesRead.novel EXCEPT
                           !.sections = fixed,
                           !.projectNotes = @ \o doc.PROJECTNOTES]),
         counters |-> scenesRead.counters,
         wcLog |-> read_wclog(<<>>, doc.WCLog)]


(***************************************************************************)
(* Yw7File.read and Yw7File.write as steps.  read() is one step; write()   *)
(* is a step for each of its file operations, and each file operation can  *)
(* fail.  yWriter places and removes the lock file at any time.            *)
(***************************************************************************)
MaxCalls == 2

\* A lock check that never finds the lock
NeverLocked == FALSE

\* is_locked: os.path.isfile(f'{self.filePath}.lock')
is_locked == fsLock

\* A text cut short by a failed write
PartialFile == [form |-> "partial", enc |-> "utf-8", doc |-> EmptyDoc]

\* The call of the method begins
BeginCall(method) ==
    /\ pc = "idle"
    /\ Len(log) < MaxCalls
    /\ op' = method
    /\ fsBefore' = fsYw7
    /\ exported' = IF method = "write" THEN novel ELSE exported

\* The call of the method ends with the outcome: "ok" or the exception
EndCall(method, outcome) ==
    /\ pc' = "idle"
    /\ result' = outcome
    /\ log' = Append(log, [op |-> method, result |-> outcome])

\* raise Error('yWriter seems to be open. Please close first')
RaiseLocked(method) ==
    /\ EndCall(method, "Error: yWriter seems to be open")
    /\ UNCHANGED <<diskVars, instanceVars, backedUp>>

\* write, up to _build_element_tree
write ==
    /\ BeginCall("write")
    /\ IF is_locked THEN RaiseLocked("write")
       ELSE LET prjNovel == IF novel.languages.isNone
                            THEN get_languages(novel) ELSE novel
                built == build_element_tree(prjNovel, wcLog)
            IN
            /\ noteCounter' = 0
            /\ noteNumber' = 0
            /\ ywTree' = [state |-> "built", doc |-> built.doc]
            /\ novel' = built.novel
            /\ pc' = "_write_element_tree"
            /\ result' = "running"
            /\ UNCHANGED <<log, wcLog, diskVars, backedUp>>
    /\ UNCHANGED <<fixerVars, converterVars>>

\* _write_element_tree: os.replace(filePath, filePath + '.bak') if there is a
\* file
write_element_tree ==
    /\ pc = "_write_element_tree"
    /\ IF fsYw7.form # "absent"
       THEN fsBak' = fsYw7 /\ fsYw7' = NoFile /\ backedUp' = TRUE
       ELSE backedUp' = FALSE /\ UNCHANGED <<fsYw7, fsBak>>
    /\ pc' = "tree.write"
    /\ UNCHANGED <<fsLock, instanceVars, op, result, log, fsBefore, exported,
                   fixerVars, converterVars>>

\* _write_element_tree: os.replace fails, 'Cannot overwrite file'
write_element_tree_replace_fails ==
    /\ pc = "_write_element_tree"
    /\ fsYw7.form # "absent"
    /\ EndCall(op, "Error: Cannot overwrite file")
    /\ backedUp' = FALSE
    /\ UNCHANGED <<diskVars, instanceVars, op, fsBefore, exported,
                   fixerVars, converterVars>>

\* _write_element_tree: ywProject.tree.write(filePath, ...)
tree_write ==
    /\ pc = "tree.write"
    /\ fsYw7' = [form |-> "raw", enc |-> "utf-8", doc |-> ywTree.doc]
    /\ pc' = "_postprocess_xml_file"
    /\ UNCHANGED <<fsBak, fsLock, instanceVars, op, result, log, fsBefore,
                   exported, backedUp, fixerVars, converterVars>>

\* _write_element_tree: tree.write fails before it created the file or after
\* it wrote a part of it; the backup is moved back if there is one,
\* 'Cannot write file'
tree_write_fails ==
    /\ pc = "tree.write"
    /\ \E left \in {fsYw7, PartialFile} :
          IF backedUp
          THEN fsYw7' = fsBak /\ fsBak' = NoFile
          ELSE fsYw7' = left /\ fsBak' = fsBak
    /\ EndCall(op, "Error: Cannot write file")
    /\ UNCHANGED <<fsLock, instanceVars, op, fsBefore, exported, backedUp,
                   fixerVars, converterVars>>

\* _postprocess_xml_file: the text is read, completed and written back
postprocess_xml_file ==
    /\ pc = "_postprocess_xml_file"
    /\ fsYw7' = [fsYw7 EXCEPT !.form = "yw7"]
    /\ EndCall(op, "ok")
    /\ UNCHANGED <<fsBak, fsLock, instanceVars, op, fsBefore, exported,
                   backedUp, fixerVars, converterVars>>

\* _postprocess_xml_file: writing the text back fails before the file is
\* opened or after a part is written, 'Cannot write file'
postprocess_xml_file_fails ==
    /\ pc = "_postprocess_xml_file"
    /\ \E left \in {fsYw7, PartialFile} : fsYw7' = left
    /\ EndCall(op, "Error: Cannot write file")
    /\ UNCHANGED <<fsBak, fsLock, instanceVars, op, fsBefore, exported,
                   backedUp, fixerVars, converterVars>>

\* read: the lock check, the counters, the text of the file decoded as
\* UTF-8, else as UTF-16, else the file parsed by ElementTree; then the
\* document parsed from the text and the novel filled from it
read ==
    /\ BeginCall("read")
    /\ IF is_locked THEN RaiseLocked("read")
       ELSE /\ UNCHANGED <<diskVars, backedUp>>
            /\ IF fsYw7.form = "absent"
               THEN \* neither open() nor ET.parse() succeeds
                    /\ EndCall("read", "Error: Can not process file")
                    /\ noteCounter' = 0
                    /\ noteNumber' = 0
                    /\ UNCHANGED <<ywTree, wcLog, novel>>
               ELSE IF fsYw7.enc = "other"
               THEN \* ET.parse() succeeds and xmlText is not assigned
                    /\ EndCall("read", "UnboundLocalError")
                    /\ noteCounter' = 0
                    /\ noteNumber' = 0
                    /\ ywTree' = [state |-> "parsed", doc |-> fsYw7.doc]
                    /\ UNCHANGED <<wcLog, novel>>
               ELSE IF fsYw7.form = "partial"
               THEN \* ET.fromstring() raises
                    /\ EndCall("read", "ParseError")
                    /\ noteCounter' = 0
                    /\ noteNumber' = 0
                    /\ UNCHANGED <<ywTree, wcLog, novel>>
               ELSE LET filled == read_element_tree(novel, fsYw7.doc) IN
                    /\ EndCall("read", "ok")
                    /\ noteCounter' = filled.counters.noteCounter
                    /\ noteNumber' = filled.counters.noteNumber
                    /\ wcLog' = filled.wcLog
                    /\ novel' = filled.novel
                    /\ UNCHANGED ywTree
    /\ UNCHANGED <<fixerVars, converterVars>>

\* yWriter is started and places its lock file
ywriter_opens ==
    /\ ~fsLock
    /\ fsLock' = TRUE
    /\ UNCHANGED <<fsYw7, fsBak, instanceVars, callVars, fixerVars,
                   converterVars>>

\* yWriter is closed and removes its lock file
ywriter_closes ==
    /\ fsLock
    /\ fsLock' = FALSE
    /\ UNCHANGED <<fsYw7, fsBak, instanceVars, callVars, fixerVars,
                   converterVars>>

CallNext ==
    \/ write
    \/ write_element_tree
    \/ tree_write
    \/ postprocess_xml_file
    \/ read

FaultNext ==
    \/ write_element_tree_replace_fails
    \/ tree_write_fails
    \/ postprocess_xml_file_fails

LockNext == ywriter_opens \/ ywriter_closes


(***************************************************************************)
(* An instance on a path where yWriter may have saved a project.           *)
(***************************************************************************)
\* A project as yWriter saves it: a chapter with a scene that has a tag, a
\* numbered footnote and an unnumbered one, and a word count log
YWriterDoc ==
    [LOCATIONS |-> <<1>>, ITEMS |-> <<>>, CHARACTERS |-> <<1>>,
     PROJECTVARS |-> <<>>,
     SCENES |-> <<[ID |-> 1, Unused |-> FALSE, Field_SceneType |-> "none",
                   Status |-> "1",
                   SceneContent |-> <<"fn", "fn*">>,
                   Tags |-> Some(<<"alpha">>),
                   SpecificDateTime |-> <<>>, Day |-> "", Hour |-> "",
                   Minute |-> "",
                   Field_SceneArcs |-> <<>>, Field_SceneAssoc |-> <<>>]>>,
     CHAPTERS |-> <<[ID |-> 1, Unused |-> FALSE, Type |-> "0",
                     ChapterType |-> "0", Field_ArcDefinition |-> "",
                     Field_Arc_Definition |-> "",
                     SectionStart |-> FALSE, Scenes |-> <<1>>]>>,
     PROJECTNOTES |-> <<>>,
     WCLog |-> <<[id |-> "2024-01-01", count |-> 1, totalCount |-> 1]>>]

\* The encodings of a file: readable as UTF-8, as UTF-16, or as neither
Encodings == {"utf-8", "utf-16", "other"}

YWriterFiles ==
    {[form |-> "yw7", enc |-> enc, doc |-> YWriterDoc] : enc \in Encodings}

\* A novel with a chapter and a section
SampleNovel == read_element_tree(EmptyNovel, YWriterDoc).novel

FileInit ==
    /\ FixerIdle
    /\ ConverterIdle
    /\ fsYw7 \in {NoFile} \cup YWriterFiles
    /\ fsBak = NoFile
    /\ fsLock \in BOOLEAN
    /\ pc = "idle"
    /\ op = "none"
    /\ result = "none"
    /\ log = <<>>
    /\ fsBefore = NoFile
    /\ exported = EmptyNovel
    /\ backedUp = FALSE
    /\ ywTree = NoTree
    /\ noteCounter = 0
    /\ noteNumber = 0
    /\ wcLog = <<>>
    /\ novel \in {EmptyNovel, SampleNovel}

FileNext == CallNext \/ FaultNext \/ LockNext

\* Calls of read() and write() with failing file operations, next to yWriter
SpecFile == FileInit /\ [][FileNext]_vars

WriteErrors == {"Error: Cannot overwrite file", "Error: Cannot write file"}

\* C1: after a call of write() that failed with a write error, the file at
\* filePath is the file that was there when the call began.
C1_AtomicWrite ==
    (/\ pc = "idle"
     /\ op = "write"
     /\ result \in WriteErrors
     /\ fsBefore.form # "absent")
        => fsYw7 = fsBefore

\* A step that begins a call of read() or write()
CallBegins == pc = "idle" /\ (pc' # "idle" \/ log' # log)

\* C2: a call of read() or write() that begins while the lock file exists
\* ends at once with the Error of the lock check, and neither a file nor the
\* novel, wcLog, the note counters or the tree of the instance has changed.
C2_LockCheck ==
    [][(CallBegins /\ fsLock)
          => /\ pc' = "idle"
             /\ result' = "Error: yWriter seems to be open"
             /\ UNCHANGED <<diskVars, instanceVars>>]_vars

\* A call refused by the lock check on an instance that has read a project:
\* the counters are not zero, the novel is filled and the file exists
C2_Witness ==
    /\ fsLock
    /\ pc = "idle"
    /\ Len(log) = 2
    /\ result = "Error: yWriter seems to be open"
    /\ noteCounter > 0
    /\ wcLog # <<>>
    /\ novel.sections # <<>>
    /\ fsYw7.form # "absent"


\* A call of read() that passed the lock check has ended
ReadEnded ==
    /\ pc = "idle"
    /\ op = "read"
    /\ result # "Error: yWriter seems to be open"

\* C21: read() fails with the Error "Can not process file" only if the file
\* can be neither decoded as UTF-8 or UTF-16 nor parsed directly, and a file
\* that only the direct parse accepts is read to the end and fills the novel.
C21_EncodingFallback ==
    ReadEnded =>
        /\ (result = "Error: Can not process file" => fsYw7.form = "absent")
        /\ (fsYw7.form = "yw7" /\ fsYw7.enc = "other")
               => /\ result = "ok"
                  /\ novel.chapters # <<>>

(***************************************************************************)
(* Novels written to a new file and read back.                             *)
(***************************************************************************)
MaxId == 2

MaxPlotLines == 2

MaxPlotPoints == 2

MaxElements == 1

MaxTags == 2

TagNames == {"alpha", "beta", STAGE_MARKER}

\* The elements of a set of numbers in ascending order
RECURSIVE Ascending(_)
Ascending(S) ==
    IF S = {} THEN <<>>
    ELSE LET least == CHOOSE x \in S : \A y \in S : x <= y
         IN  <<least>> \o Ascending(S \ {least})

OneTo(n) == [k \in 1..n |-> k]

\* A novel with the chapters chIds, the sections scIds in the first chapter
\* and in the first plot line, nPl plot lines, nPp plot points in the last
\* plot line, the first of them associated with the first section, and nEl
\* characters, locations, items and project notes
IdNovel(chIds, scIds, nPl, nPp, nEl) ==
    LET chapters == Ascending(chIds)
        sections == Ascending(scIds)
    IN  [chapters |-> [n \in 1..Len(chapters) |->
                          [id |-> chapters[n], chType |-> 0, chLevel |-> 2,
                           sections |-> IF n = 1 THEN sections ELSE <<>>]],
         sections |-> [n \in 1..Len(sections) |->
                          [id |-> sections[n], scType |-> 0, status |-> 1,
                           tags |-> None, sectionContent |-> <<>>,
                           date |-> "", time |-> <<>>, day |-> ""]],
         plotLines |-> [k \in 1..nPl |->
                           [id |-> k, shortName |-> ToString(k),
                            sections |-> IF k = 1 THEN sections ELSE <<>>]],
         plTree |-> [k \in 1..nPl |->
                        [id |-> k,
                         points |-> IF k = nPl THEN OneTo(nPp) ELSE <<>>]],
         plotPoints |-> [j \in 1..nPp |->
                            [id |-> j,
                             sectionAssoc |-> IF j = 1 /\ sections # <<>>
                                              THEN sections[1] ELSE 0]],
         characters |-> OneTo(nEl), locations |-> OneTo(nEl),
         items |-> OneTo(nEl), projectNotes |-> OneTo(nEl),
         saveWordCount |-> FALSE,
         languages |-> None, languageCode |-> "", countryCode |-> ""]

IdNovels ==
    {IdNovel(chIds, scIds, nPl, nPp, nEl) :
        chIds \in SUBSET (1..MaxId),
        scIds \in SUBSET (1..MaxId),
        nPl \in 0..MaxPlotLines,
        nPp \in 0..MaxPlotPoints,
        nEl \in 0..MaxElements}

\* The novels of IdNovels that novelibre can hold: sections are in a chapter
\* and plot points in a plot line
WellFormed(prjNovel) ==
    /\ prjNovel.sections # <<>> => prjNovel.chapters # <<>>
    /\ prjNovel.plotPoints # <<>> => prjNovel.plotLines # <<>>

\* A novel with one chapter and one section of the type and with the tags
StageNovel(scType, tags) ==
    [IdNovel({1}, {1}, 0, 0, 0) EXCEPT
        !.sections = <<[id |-> 1, scType |-> scType, status |-> 1,
                        tags |-> tags, sectionContent |-> <<>>,
                        date |-> "", time |-> <<>>, day |-> ""]>>]

StageNovels ==
    {StageNovel(scType, tags) :
        scType \in 0..3,
        tags \in {None} \cup {Some(list) : list \in SeqsUpTo(TagNames, MaxTags)}}

RoundTripInit ==
    /\ FixerIdle
    /\ ConverterIdle
    /\ fsYw7 = NoFile
    /\ fsBak = NoFile
    /\ fsLock = FALSE
    /\ pc = "idle"
    /\ op = "none"
    /\ result = "none"
    /\ log = <<>>
    /\ fsBefore = NoFile
    /\ exported = EmptyNovel
    /\ backedUp = FALSE
    /\ ywTree = NoTree
    /\ noteCounter = 0
    /\ noteNumber = 0
    /\ wcLog = <<>>
    /\ novel \in {n \in IdNovels : WellFormed(n)} \cup StageNovels

\* Calls of write() and read() on a new path, without failures
SpecRoundTrip == RoundTripInit /\ [][CallNext]_vars

\* write() and then read() have been called, and both succeeded
RoundTripDone ==
    /\ pc = "idle"
    /\ log = <<[op |-> "write", result |-> "ok"],
               [op |-> "read", result |-> "ok"]>>

\* The SCENE element with the ID in the file at filePath
SceneOf(scId) ==
    LET scenes == fsYw7.doc.SCENES
    IN  scenes[CHOOSE n \in 1..Len(scenes) : scenes[n].ID = scId]

\* C6: after a round trip, every section that was a stage (scType 3) with a
\* tag list T without 'stage' is in the file with the tags T + ['stage'],
\* and in the novel as a stage with the tag list T.
C6_StageRoundTrip ==
    RoundTripDone =>
        \A n \in 1..Len(exported.sections) :
            LET prjScn == exported.sections[n] IN
            (/\ prjScn.scType = 3
             /\ ~prjScn.tags.isNone
             /\ ~Contains(prjScn.tags.list, STAGE_MARKER))
                => /\ SceneOf(prjScn.id).Tags = Some(list_to_string(
                          Append(prjScn.tags.list, STAGE_MARKER)))
                   /\ HasKey(novel.sections, prjScn.id)
                   /\ DictGet(novel.sections, prjScn.id).scType = 3
                   /\ DictGet(novel.sections, prjScn.id).tags = prjScn.tags

\* C7: after a round trip, the novel has the chapter IDs, section IDs,
\* character IDs, location IDs, item IDs and project note IDs that it had
\* when write() began.
C7_IdStability ==
    RoundTripDone =>
        /\ Range(Ids(novel.chapters)) = Range(Ids(exported.chapters))
        /\ Range(Ids(novel.sections)) = Range(Ids(exported.sections))
        /\ Range(novel.characters) = Range(exported.characters)
        /\ Range(novel.locations) = Range(exported.locations)
        /\ Range(novel.items) = Range(exported.items)
        /\ Range(novel.projectNotes) = Range(exported.projectNotes)

Distinct(list) ==
    \A i, j \in 1..Len(list) : i # j => list[i] # list[j]

\* C8: in the document that _build_element_tree built, the SCENE IDs are
\* pairwise distinct and the CHAPTER IDs are pairwise distinct: the scenes
\* of the sections come first and the scenes of the plot points follow, the
\* chapters come first and the chapters of the plot lines follow.
C8_IdsUnique ==
    ywTree.state = "built" =>
        /\ Distinct([n \in 1..Len(ywTree.doc.SCENES) |->
                        ywTree.doc.SCENES[n].ID])
        /\ Distinct([n \in 1..Len(ywTree.doc.CHAPTERS) |->
                        ywTree.doc.CHAPTERS[n].ID])

\* A document built from a novel whose only section and only chapter have
\* the ID 2, with two plot points in two plot lines: the scenes are 2, 1, 3
\* and the chapters 2, 1, 3, 4
C8_Witness ==
    /\ ywTree.state = "built"
    /\ [n \in 1..Len(ywTree.doc.SCENES) |-> ywTree.doc.SCENES[n].ID]
           = <<2, 1, 3>>
    /\ [n \in 1..Len(ywTree.doc.CHAPTERS) |-> ywTree.doc.CHAPTERS[n].ID]
           = <<2, 1, 3, 4>>
    /\ Ids(exported.sections) = <<2>>
    /\ Len(exported.plotPoints) = 2

(***************************************************************************)
(* Calls of write() and read() on novels that differ in what the writer    *)
(* encodes: the locale and the languages, the word count log, and the      *)
(* types of chapters and sections.                                         *)
(***************************************************************************)
MaxLanguages == 2

LanguageCodes == {"de", "en"}

\* A novel with one chapter and one section, and with the locale
LocaleNovel(languages, languageCode, countryCode) ==
    [IdNovel({1}, {1}, 0, 0, 0) EXCEPT !.languages = languages,
                                       !.languageCode = languageCode,
                                       !.countryCode = countryCode]

LocaleNovels ==
    {LocaleNovel(languages, languageCode, countryCode) :
        languages \in {None} \cup {Some(list) :
                          list \in SeqsUpTo(LanguageCodes, MaxLanguages)},
        languageCode \in {"", "de", "x"},
        countryCode \in {"", "DE"}}

MaxWcEntries == 3

\* The word counts of a log entry: (count, totalCount)
WordCounts == {<<100, 100>>, <<120, 120>>, <<100, 120>>}

\* The date of the n-th day of the log
WcDate(n) == "2024-01-0" \o ToString(n)

\* self.wcLog with the word counts, an entry per day
WcLogOf(counts) ==
    [n \in 1..Len(counts) |->
        [id |-> WcDate(n), count |-> counts[n][1],
         totalCount |-> counts[n][2]]]

\* A novel with a chapter and a section of the types, a plot line and a
\* plot point
TypeNovel(chType, scType) ==
    [IdNovel({1}, {1}, 1, 1, 0) EXCEPT !.chapters[1].chType = chType,
                                       !.sections[1].scType = scType]

TypeNovels == {TypeNovel(chType, scType) : chType \in 0..3, scType \in 0..3}

\* What write() is called with: the novel and the word count log
WriterInputs ==
    {[novel |-> prjNovel, wcLog |-> <<>>] :
        prjNovel \in LocaleNovels \cup TypeNovels}
    \cup {[novel |-> [IdNovel({1}, {1}, 0, 0, 0) EXCEPT
                          !.saveWordCount = saveWordCount],
           wcLog |-> WcLogOf(counts)] :
              saveWordCount \in BOOLEAN,
              counts \in SeqsUpTo(WordCounts, MaxWcEntries)}

WriteInit ==
    /\ FixerIdle
    /\ ConverterIdle
    /\ fsYw7 = NoFile
    /\ fsBak = NoFile
    /\ fsLock = FALSE
    /\ pc = "idle"
    /\ op = "none"
    /\ result = "none"
    /\ log = <<>>
    /\ fsBefore = NoFile
    /\ exported = EmptyNovel
    /\ backedUp = FALSE
    /\ ywTree = NoTree
    /\ noteCounter = 0
    /\ noteNumber = 0
    /\ \E input \in WriterInputs :
           /\ novel = input.novel
           /\ wcLog = input.wcLog

\* Calls of write() and read() on a new path, without failures
SpecWrite == WriteInit /\ [][CallNext]_vars

\* write() has built the element tree of the novel that is in exported
TreeBuilt == pc = "_write_element_tree"

\* C13: Locale materialization: the element tree holds PROJECTVAR elements
\* iff the novel has a non-empty languages list, a language code or a country
\* code; then it holds 'Language', 'Country' and a 'lang=X', '/lang=X' pair
\* for each X of novel.languages, 2 + 2 * len(novel.languages) in all, each
\* with Tags '0', and their IDs are pairwise distinct.
C13_LocaleMaterialization ==
    TreeBuilt =>
        LET xmlProjectvars == ywTree.doc.PROJECTVARS
            languages == novel.languages.list
        IN  /\ xmlProjectvars # <<>> <=>
                   \/ Truthy(exported.languages)
                   \/ exported.languageCode # ""
                   \/ exported.countryCode # ""
            /\ xmlProjectvars # <<>> =>
                   /\ Len(xmlProjectvars) = 2 + 2 * Len(languages)
                   /\ xmlProjectvars[1].Title = <<"Language">>
                   /\ xmlProjectvars[2].Title = <<"Country">>
                   /\ \A k \in 1..Len(languages) :
                          /\ xmlProjectvars[2 * k + 1].Title
                                 = <<"lang=", languages[k]>>
                          /\ xmlProjectvars[2 * k + 2].Title
                                 = <<"/lang=", languages[k]>>
                   /\ \A n \in 1..Len(xmlProjectvars) :
                          xmlProjectvars[n].Tags = "0"
                   /\ \A m, n \in 1..Len(xmlProjectvars) :
                          m # n => xmlProjectvars[m].ID # xmlProjectvars[n].ID

\* C13 witness: a novel with two languages has been written with six project
\* variables.
C13_Witness ==
    /\ TreeBuilt
    /\ Len(exported.languages.list) = 2
    /\ Len(ywTree.doc.PROJECTVARS) = 6

\* The entries of the log at the positions, in the order of the log
RECURSIVE EntriesAt(_, _, _)
EntriesAt(entries, positions, n) ==
    IF n > Len(entries) THEN <<>>
    ELSE (IF n \in positions THEN <<entries[n]>> ELSE <<>>)
             \o EntriesAt(entries, positions, n + 1)

\* C14: Word-count log: the WC elements are entries of wcLog in insertion
\* order; with saveWordCount an entry is left out exactly when its
\* (count, totalCount) equals that of the last entry written before it;
\* without saveWordCount every entry is written.
C14_WordCountLog ==
    TreeBuilt =>
        LET xmlWcLog == ywTree.doc.WCLog
            written == {n \in 1..Len(wcLog) : wcLog[n] \in Range(xmlWcLog)}
            SameCounts(m, n) ==
                /\ wcLog[m].count = wcLog[n].count
                /\ wcLog[m].totalCount = wcLog[n].totalCount
            LastWrittenBefore(m, n) ==
                /\ m \in written /\ m < n
                /\ \A k \in written : k < n => k <= m
        IN  /\ xmlWcLog = EntriesAt(wcLog, written, 1)
            /\ \A n \in 1..Len(wcLog) :
                   n \notin written <=>
                       /\ exported.saveWordCount
                       /\ \E m \in 1..Len(wcLog) :
                              LastWrittenBefore(m, n) /\ SameCounts(m, n)

\* C14 witness: the log (100, 100), (100, 100), (120, 120) has been written
\* with saveWordCount as its first and its third entry.
C14_Witness ==
    /\ TreeBuilt
    /\ exported.saveWordCount
    /\ wcLog = WcLogOf(<< <<100, 100>>, <<100, 100>>, <<120, 120>> >>)
    /\ ywTree.doc.WCLog = <<wcLog[1], wcLog[3]>>

\* The last call was write(), and it succeeded
WriteSucceeded == pc = "idle" /\ op = "write" /\ result = "ok"

\* C15: Write is read-only on the Novel: after a successful write() the novel
\* is as it was when write() was called, in particular the tags of each
\* section, stages included, the languages, the language code and the
\* country code.
C15_WriteReadOnly == WriteSucceeded => novel = exported

\* C16: Backup lifetime: after every successful write() to a path where a
\* file existed, the backup file that the call created no longer exists.
C16_BackupLifetime ==
    (WriteSucceeded /\ backedUp) => fsBak.form = "absent"

\* The CHAPTER element with the ID in the element tree
ChapterOf(chId) ==
    LET xmlChapters == ywTree.doc.CHAPTERS
    IN  xmlChapters[CHOOSE n \in 1..Len(xmlChapters) :
                        xmlChapters[n].ID = chId]

\* <Unused> ('-1' if present), <Type> and <ChapterType> of a CHAPTER element
ChapterTypeOf(xmlChapter) ==
    <<xmlChapter.Unused, xmlChapter.Type, xmlChapter.ChapterType>>

\* C17: Chapter type encoding: a chapter with chType 0 is written without
\* <Unused>, with Type '0' and ChapterType '0'; with chType 1 (notes) with
\* Unused '-1', Type '1', ChapterType '1'; with chType 3 (unused) with
\* Unused '-1', Type '1', ChapterType '0'; the plot-line container and every
\* plot-line chapter with Unused '-1', Type '1', ChapterType '2'.
C17_ChapterTypeEncoding ==
    TreeBuilt =>
        /\ \A n \in 1..Len(exported.chapters) :
               LET prjChp == exported.chapters[n]
                   written == ChapterTypeOf(ChapterOf(prjChp.id))
               IN  /\ prjChp.chType = 0 => written = <<FALSE, "0", "0">>
                   /\ prjChp.chType = 1 => written = <<TRUE, "1", "1">>
                   /\ prjChp.chType = 3 => written = <<TRUE, "1", "0">>
        /\ \A n \in 1..Len(ywTree.doc.CHAPTERS) :
               ywTree.doc.CHAPTERS[n].ID \notin Range(Ids(exported.chapters))
                   => ChapterTypeOf(ywTree.doc.CHAPTERS[n])
                          = <<TRUE, "1", "2">>

\* The SCENE element with the ID in the element tree
BuiltSceneOf(scId) ==
    LET xmlScenes == ywTree.doc.SCENES
    IN  xmlScenes[CHOOSE n \in 1..Len(xmlScenes) : xmlScenes[n].ID = scId]

\* <Unused> ('-1' if present) and <Field_SceneType> of a SCENE element
SceneTypeOf(xmlScene) == <<xmlScene.Unused, xmlScene.Field_SceneType>>

\* C18: Scene type encoding: a section with scType 0 is written with
\* neither <Unused> nor <Field_SceneType>; with scType 1 (notes) with Unused
\* '-1' and Field_SceneType '1'; with scType 3 (stage) with Unused '-1',
\* Field_SceneType '0' and 'stage' among the written tags; every plot point
\* with Unused '-1', Field_SceneType '2', Status '1' and an empty
\* SceneContent.
C18_SceneTypeEncoding ==
    TreeBuilt =>
        /\ \A n \in 1..Len(exported.sections) :
               LET prjScn == exported.sections[n]
                   xmlScene == BuiltSceneOf(prjScn.id)
                   written == SceneTypeOf(xmlScene)
               IN  /\ prjScn.scType = 0 => written = <<FALSE, "none">>
                   /\ prjScn.scType = 1 => written = <<TRUE, "1">>
                   /\ prjScn.scType = 3 =>
                          /\ written = <<TRUE, "0">>
                          /\ ~xmlScene.Tags.isNone
                          /\ Contains(string_to_list(xmlScene.Tags.list),
                                      STAGE_MARKER)
        /\ \A n \in 1..Len(ywTree.doc.SCENES) :
               LET xmlScene == ywTree.doc.SCENES[n] IN
               xmlScene.ID \notin Range(Ids(exported.sections)) =>
                   /\ SceneTypeOf(xmlScene) = <<TRUE, "2">>
                   /\ xmlScene.Status = "1"
                   /\ xmlScene.SceneContent = <<>>

(***************************************************************************)
(* Calls of read() and write() on files that yWriter wrote: the chapter    *)
(* has or lacks <Unused>, <Type> and <ChapterType>, the scene has or lacks *)
(* <SpecificDateTime>, <Day>, <Hour> and <Minute>.                         *)
(***************************************************************************)
\* The document with the chapter type elements
ChapterTypeDoc(unused, type, chapterType) ==
    [YWriterDoc EXCEPT !.CHAPTERS[1].Unused = unused,
                       !.CHAPTERS[1].Type = type,
                       !.CHAPTERS[1].ChapterType = chapterType]

\* The document with the scene start elements
SceneStartDoc(specificDateTime, day, hour, minute) ==
    [YWriterDoc EXCEPT !.SCENES[1].SpecificDateTime = specificDateTime,
                       !.SCENES[1].Day = day,
                       !.SCENES[1].Hour = hour,
                       !.SCENES[1].Minute = minute]

\* The document with a second chapter that defines the plot line "A" in
\* arcField, if any, and lists a second scene; both scenes may name "A"
PlotLineDoc(scType, unused, tags, scArcs, ppType, ppArcs, arcField) ==
    [YWriterDoc EXCEPT
        !.SCENES =
            <<[YWriterDoc.SCENES[1] EXCEPT !.Field_SceneType = scType,
                                           !.Unused = unused,
                                           !.Tags = Some(tags),
                                           !.Field_SceneArcs = scArcs],
              [YWriterDoc.SCENES[1] EXCEPT !.ID = 2,
                                           !.Field_SceneType = ppType,
                                           !.Unused = ppType # "none",
                                           !.SceneContent = <<>>,
                                           !.Tags = None,
                                           !.Field_SceneArcs = ppArcs]>>,
        !.CHAPTERS =
            <<YWriterDoc.CHAPTERS[1],
              [ID |-> 2, Unused |-> TRUE, Type |-> "1", ChapterType |-> "2",
               Field_ArcDefinition |->
                   IF arcField = "Field_ArcDefinition" THEN "A" ELSE "",
               Field_Arc_Definition |->
                   IF arcField = "Field_Arc_Definition" THEN "A" ELSE "",
               SectionStart |-> FALSE, Scenes |-> <<2>>]>>]

PlotLineDocs ==
    {PlotLineDoc(sceneType, unused, tags, sceneArcs, pointType, pointArcs,
                 arcField) :
        sceneType \in {"none", "1", "2"},
        unused \in BOOLEAN,
        tags \in {<<"alpha">>, <<STAGE_MARKER>>},
        sceneArcs \in {<<>>, <<"A">>},
        pointType \in {"none", "2"},
        pointArcs \in {<<>>, <<"A">>},
        arcField \in {"none", "Field_ArcDefinition", "Field_Arc_Definition"}}

\* The notes of one scene: numbered and starred footnotes and endnotes
MaxSceneNotes == 2

\* The document with two scenes in its chapter, each with notes
NoteDoc(notes1, notes2) ==
    [YWriterDoc EXCEPT
        !.SCENES = <<[YWriterDoc.SCENES[1] EXCEPT !.SceneContent = notes1],
                     [YWriterDoc.SCENES[1] EXCEPT !.ID = 2,
                                                  !.SceneContent = notes2]>>,
        !.CHAPTERS[1].Scenes = <<1, 2>>]

NoteDocs ==
    {NoteDoc(notes1, notes2) :
        notes1, notes2 \in SeqsUpTo({"fn", "fn*", "en"}, MaxSceneNotes)}

\* The document with project notes and with the project variables of the
\* language codes
ProjectDoc(projectNotes, languages) ==
    [YWriterDoc EXCEPT !.PROJECTNOTES = projectNotes,
                       !.PROJECTVARS = AddLanguageTags(<<>>, languages)]

ProjectDocs ==
    {ProjectDoc(projectNotes, languages) :
        projectNotes \in {<<>>, <<1>>, <<1, 2>>},
        languages \in {<<>>, <<"de">>, <<"de", "en">>}}

YWriterDocs ==
    PlotLineDocs \cup NoteDocs \cup ProjectDocs \cup
    {ChapterTypeDoc(unused, type, chapterType) :
        unused \in BOOLEAN,
        type \in {"", "0", "1"},
        chapterType \in {"", "0", "1", "2"}}
    \cup {SceneStartDoc(specificDateTime, day, hour, minute) :
              specificDateTime \in {<<>>, <<"2024-01-02", "09", "05", "00">>,
                                    <<"2024-01-02">>, <<"tomorrow">>},
              day \in {"", "3", "x"},
              hour \in {"", "9", "12"},
              minute \in {"", "5", "30"}}

ReadInit ==
    /\ FixerIdle
    /\ ConverterIdle
    /\ fsYw7 \in {[form |-> "yw7", enc |-> "utf-8", doc |-> doc] :
                      doc \in YWriterDocs}
    /\ fsBak = NoFile
    /\ fsLock = FALSE
    /\ pc = "idle"
    /\ op = "none"
    /\ result = "none"
    /\ log = <<>>
    /\ fsBefore = NoFile
    /\ exported = EmptyNovel
    /\ backedUp = FALSE
    /\ ywTree = NoTree
    /\ noteCounter = 0
    /\ noteNumber = 0
    /\ wcLog = <<>>
    /\ novel = EmptyNovel

\* Calls of read() and write() on a file of yWriter, without failures
SpecRead == ReadInit /\ [][CallNext]_vars

\* The last call was read(), and it succeeded: the novel is read from the
\* file at filePath
ReadSucceeded == pc = "idle" /\ op = "read" /\ result = "ok"

\* C19: Chapter type decoding: every chapter read from a CHAPTER element
\* with an <Unused> has chType 1, whatever <Type> and <ChapterType> are and
\* whether or not they are present; the chType of a chapter read is 0 or 1.
C19_ChapterTypeDecoding ==
    ReadSucceeded =>
        \A n \in 1..Len(fsYw7.doc.CHAPTERS) :
            LET xmlChapter == fsYw7.doc.CHAPTERS[n] IN
            HasKey(novel.chapters, xmlChapter.ID) =>
                LET prjChapter == DictGet(novel.chapters, xmlChapter.ID)
                IN  /\ prjChapter.chType \in {0, 1}
                    /\ xmlChapter.Unused => prjChapter.chType = 1

\* C20: Scene time decoding: a section read from a SCENE element whose
\* <SpecificDateTime> is in ISO format has the date and the time of it; in
\* every other case, the element absent or not in ISO format, the section
\* has the day of <Day> ('' if that is not an integer) and, if <Hour> or
\* <Minute> is present, the time 'HH:MM:00' of the zero-padded <Hour> and
\* <Minute>, '00' for the one that is absent.
C20_SceneTimeDecoding ==
    ReadSucceeded =>
        \A n \in 1..Len(fsYw7.doc.SCENES) :
            LET xmlScene == fsYw7.doc.SCENES[n] IN
            HasKey(novel.sections, xmlScene.ID) =>
                LET prjScn == DictGet(novel.sections, xmlScene.ID)
                    hour == IF xmlScene.Hour # "" THEN Zfill2(xmlScene.Hour)
                            ELSE "00"
                    minute == IF xmlScene.Minute # ""
                              THEN Zfill2(xmlScene.Minute) ELSE "00"
                IN  IF IsIsoFormat(xmlScene.SpecificDateTime)
                    THEN /\ prjScn.date = xmlScene.SpecificDateTime[1]
                         /\ prjScn.time # <<>>
                    ELSE /\ prjScn.day = IF xmlScene.Day \in Integers1To5
                                         THEN xmlScene.Day ELSE ""
                         /\ prjScn.time =
                                IF xmlScene.Hour # "" \/ xmlScene.Minute # ""
                                THEN <<hour, minute, "00">> ELSE <<>>

\* The SCENE element of the file with the ID
XmlSceneOf(scId) ==
    LET Is(xmlScene) == xmlScene.ID = scId
    IN  SelectSeq(fsYw7.doc.SCENES, Is)[1]

\* C22: after read(), a section of the novel, whatever its type, is in the
\* sections of a plot line exactly if the short name of the plot line is one
\* of the names in the Field_SceneArcs of its scene, and every ID in the
\* sections of a plot line is the ID of a section of the novel.
C22_PlotLineWiring ==
    ReadSucceeded =>
        \A k \in 1..Len(novel.plotLines) :
            LET plotLine == novel.plotLines[k] IN
            /\ \A n \in 1..Len(novel.sections) :
                   LET scId == novel.sections[n].id IN
                   Contains(plotLine.sections, scId)
                       <=> Contains(XmlSceneOf(scId).Field_SceneArcs,
                                    plotLine.shortName)
            /\ \A scId \in Range(plotLine.sections) :
                   HasKey(novel.sections, scId)

\* A CHAPTER element that defines a plot line
DefinesPlotLine(xmlChapter) ==
    \/ xmlChapter.Field_ArcDefinition # ""
    \/ xmlChapter.Field_Arc_Definition # ""

\* The SCENE element is listed under a chapter that defines a plot line
ListedAsPlotPoint(xmlScene) ==
    \E n \in 1..Len(fsYw7.doc.CHAPTERS) :
        /\ DefinesPlotLine(fsYw7.doc.CHAPTERS[n])
        /\ Contains(fsYw7.doc.CHAPTERS[n].Scenes, xmlScene.ID)

\* C23: after read(), every SCENE listed under a chapter with a non-empty
\* Field_ArcDefinition or Field_Arc_Definition is a plot point of the novel
\* and not a section, every other SCENE is a section and not a plot point,
\* and such a chapter is a plot line under PL_ROOT and not a chapter under
\* CH_ROOT.
C23_PlotPointReclassification ==
    ReadSucceeded =>
        /\ \A n \in 1..Len(fsYw7.doc.SCENES) :
               LET xmlScene == fsYw7.doc.SCENES[n] IN
               IF ListedAsPlotPoint(xmlScene)
               THEN /\ HasKey(novel.plotPoints, xmlScene.ID)
                    /\ ~HasKey(novel.sections, xmlScene.ID)
               ELSE /\ HasKey(novel.sections, xmlScene.ID)
                    /\ ~HasKey(novel.plotPoints, xmlScene.ID)
        /\ \A n \in 1..Len(fsYw7.doc.CHAPTERS) :
               LET xmlChapter == fsYw7.doc.CHAPTERS[n] IN
               DefinesPlotLine(xmlChapter) =>
                   /\ HasKey(novel.plotLines, xmlChapter.ID)
                   /\ HasKey(novel.plTree, xmlChapter.ID)
                   /\ ~HasKey(novel.chapters, xmlChapter.ID)

\* A file with a plot line chapter that lists a scene of normal type has been
\* read: the novel has a section, a plot line and a plot point
C23_Witness ==
    /\ ReadSucceeded
    /\ \E n \in 1..Len(fsYw7.doc.SCENES) :
           /\ ListedAsPlotPoint(fsYw7.doc.SCENES[n])
           /\ fsYw7.doc.SCENES[n].Field_SceneType = "none"
    /\ fsYw7.doc.CHAPTERS[2].Field_Arc_Definition # ""
    /\ novel.sections # <<>>
    /\ novel.plotPoints # <<>>

\* The note elements of the sections of the SCENE elements, in file order
RECURSIVE NotesRead(_)
NotesRead(xmlScenes) ==
    IF xmlScenes = <<>> THEN <<>>
    ELSE (IF HasKey(novel.sections, Head(xmlScenes).ID)
          THEN DictGet(novel.sections, Head(xmlScenes).ID).sectionContent
          ELSE <<>>)
             \o NotesRead(Tail(xmlScenes))

\* The notes in the SCENE elements, in file order
RECURSIVE NotesOf(_)
NotesOf(xmlScenes) ==
    IF xmlScenes = <<>> THEN <<>>
    ELSE Head(xmlScenes).SceneContent \o NotesOf(Tail(xmlScenes))

\* A call of write() has passed the lock check
WriteBegun ==
    /\ op = "write"
    /\ \/ pc # "idle"
       \/ result # "Error: yWriter seems to be open"

\* C26: after a read(), the ids of the notes of all scene bodies in file
\* order are ftn1..ftnN, one for each note, without repetition or gap, the
\* counter is N and the running number is the number of the notes that are
\* not starred, whatever calls came before on the instance; in a write() both
\* are zero.
C26_NoteCounter ==
    /\ ReadSucceeded =>
           LET notes == NotesOf(fsYw7.doc.SCENES)
               Numbered(noteType) == noteType # "fn*"
           IN  /\ NotesRead(fsYw7.doc.SCENES)
                      = [k \in 1..Len(notes) |->
                            [noteType |-> notes[k], id |-> k]]
               /\ noteCounter = Len(notes)
               /\ noteNumber = Len(SelectSeq(notes, Numbered))
    /\ WriteBegun => noteCounter = 0 /\ noteNumber = 0

\* A second read() on the instance of a file with notes in both scenes
C26_Witness ==
    /\ ReadSucceeded
    /\ Len(log) = 2
    /\ log[1] = [op |-> "read", result |-> "ok"]
    /\ Len(fsYw7.doc.SCENES) = 2
    /\ \A n \in 1..2 : HasKey(novel.sections, n)
                       /\ Len(DictGet(novel.sections, n).sectionContent) = 2
    /\ noteCounter = 4

\* read() has been called twice in a row, and both calls succeeded
ReadTwice ==
    /\ ReadSucceeded
    /\ log = <<[op |-> "read", result |-> "ok"],
               [op |-> "read", result |-> "ok"]>>

\* C29: calling read() twice in a row for an unchanged file leaves the novel
\* as calling it once: the child lists under the roots, under every chapter
\* and under every plot line, the languages and the sections of every plot
\* line equal those after the first read() and have no duplicated entries.
C29_RereadIdempotent ==
    ReadTwice =>
        LET once == read_element_tree(EmptyNovel, fsYw7.doc).novel IN
        /\ novel.chapters = once.chapters
        /\ novel.plTree = once.plTree
        /\ novel.characters = once.characters
        /\ novel.locations = once.locations
        /\ novel.items = once.items
        /\ novel.projectNotes = once.projectNotes
        /\ novel.languages = once.languages
        /\ [k \in 1..Len(novel.plotLines) |-> novel.plotLines[k].sections]
               = [k \in 1..Len(once.plotLines) |-> once.plotLines[k].sections]
        /\ Distinct(novel.projectNotes)
        /\ Distinct(novel.languages.list)

====
